---------------------------- MODULE Spec2Model ----------------------------
(***************************************************************************)
(* A model of the nginx configuration front end of caddyserver/nginx-adapter: *)
(* the lexer (nginxLexer.nextToken, tokenize), the recursive-descent parser *)
(* (nginxParser.nextBlock, nginxParser.next), include resolution            *)
(* (nginxParser.doInclude, doSingleInclude, allTokens) and the head of      *)
(* Adapter.Adapt.                                                           *)
(*                                                                         *)
(* A Go string is modelled as a sequence of one-character strings, so that  *)
(* "include" is the tuple <<"i","n","c","l","u","d","e">>; the cursor keeps   *)
(* Go's 0-based value, so the current token is tokens[cursor + 1].          *)
(***************************************************************************)
EXTENDS Integers, Sequences, FiniteSets, TLC

VARIABLES
    body,      \* the configuration text handed to tokenize / Adapt
    lex,       \* the nginxLexer, the locals of nextToken and tokenize's slice
    pc,        \* where the run stands
    tokens,    \* nginxParser.tokens
    cursor,    \* nginxParser.cursor (0-based, as in the code)
    stack,     \* the active calls of nextBlock / next, innermost last
    ret,       \* what parse returned (or the panic that ended it)
    fsLog,     \* the filesystem calls made so far, in order
    adapted,   \* what Adapt returned
    ss,        \* the setupState
    ctx        \* the active call of httpContext / serverContext / upstreamContext

vars == <<body, lex, pc, tokens, cursor, stack, ret, fsLog, adapted, ss, ctx>>

-----------------------------------------------------------------------------
(* Bounds of the model.                                                     *)

\* longest text, in characters, the lexer specification draws
MaxLen == 4
\* longest configuration, in lines, the adapter specification draws
MaxLines == 3
\* longest configuration, in words, the adapter specification draws
MaxWords == 5
\* longest configuration, in lines, the include specification draws
MaxIncludeLines == 2
\* most server blocks of an http block
MaxServers == 3
\* most listen directives of a drawn server block
MaxListens == 2
\* most directives of an upstream block
MaxDirs == 3
\* longest token sequence include resolution is run on: a file that includes
\* itself makes the sequence grow without end
MaxTokens == 20

-----------------------------------------------------------------------------
(* Sequence helpers.                                                        *)

RECURSIVE Flatten(_)
Flatten(seqs) == IF seqs = <<>> THEN <<>> ELSE Head(seqs) \o Flatten(Tail(seqs))

RECURSIVE Count(_, _)
Count(s, c) ==
    IF s = <<>> THEN 0 ELSE (IF Head(s) = c THEN 1 ELSE 0) + Count(Tail(s), c)

Contains(s, c) == \E i \in 1..Len(s) : s[i] = c

Last(s) == s[Len(s)]

Front(s) == SubSeq(s, 1, Len(s) - 1)

\* all sequences over S of length at most n
BSeq(S, n) == UNION {[1..k -> S] : k \in 0..n}

-----------------------------------------------------------------------------
(* The lexer.                                                               *)

NoQuote == ""

\* unicode.IsSpace, on the characters the model draws
IsSpace(ch) == ch \in {" ", "\n", "\r", "\t"}

\* the zero value of `token`
ZeroToken == [file |-> <<>>, line |-> 0, text |-> <<>>]

\* The lexer struct after newLexer, with the locals of a fresh nextToken call
\* (val, comment, escaped, quoted), the reader position and tokenize's slice.
newLexer(filename) ==
    [file |-> filename, line |-> 1, token |-> ZeroToken, pos |-> 0,
     val |-> <<>>, comment |-> FALSE, escaped |-> FALSE, quoted |-> NoQuote,
     tokens |-> <<>>, done |-> FALSE]

ReadRune(l) == [l EXCEPT !.pos = l.pos + 1]

\* makeToken() returning true: tokenize appends lex.token and calls nextToken
\* again, whose locals start afresh.
makeToken(l) ==
    LET t == [l.token EXCEPT !.text = l.val]
    IN [l EXCEPT !.token = t, !.tokens = Append(l.tokens, t),
                 !.val = <<>>, !.comment = FALSE, !.escaped = FALSE,
                 !.quoted = NoQuote]

\* A lexer that stops at the end of the input without its pending token.
LexEOFDropped(l) == [l EXCEPT !.done = TRUE]

\* ReadRune fails with io.EOF: a pending token is returned, else false.
LexEOF(l) ==
    IF Len(l.val) > 0 THEN makeToken(l) ELSE [l EXCEPT !.done = TRUE]

\* The text a character adds to val inside a quoted token.
\* a lexer that drops the backslash before every character
QuotedTextBare(l, ch) == <<ch>>

QuotedText(l, ch) ==
    (IF l.escaped /\ ch # l.quoted THEN <<"\\">> ELSE <<>>) \o <<ch>>

\* a lexer whose quoted tokens end at whitespace
LexQuotedCut(l, ch) ==
    IF ~l.escaped /\ ch = "\\" THEN [ReadRune(l) EXCEPT !.escaped = TRUE]
    ELSE IF IsSpace(ch) \/ (~l.escaped /\ ch = l.quoted) THEN makeToken(ReadRune(l))
    ELSE [ReadRune(l) EXCEPT !.val = l.val \o QuotedText(l, ch), !.escaped = FALSE]

\* quoted > 0
LexQuoted(l, ch) ==
    LET r == ReadRune(l)
    IN IF ~l.escaped /\ ch = "\\" THEN [r EXCEPT !.escaped = TRUE]
       ELSE IF ~l.escaped /\ ch = l.quoted THEN makeToken(r)
       ELSE [r EXCEPT !.line = IF ch = "\n" THEN l.line + 1 ELSE l.line,
                      !.val = l.val \o QuotedText(l, ch),
                      !.escaped = FALSE]

\* unicode.IsSpace(ch)
LexSpace(l, ch) ==
    LET r == ReadRune(l)
        n == IF ch = "\n"
             THEN [r EXCEPT !.line = l.line + 1, !.comment = FALSE]
             ELSE r
    IN IF ch = "\r" THEN r
       ELSE IF Len(l.val) > 0 THEN makeToken(n)
       ELSE n

\* a lexer that does not unread the ';' that ends a word
LexSemicolonEaten(l, ch) ==
    IF Len(l.val) = 0
    THEN makeToken([ReadRune(l) EXCEPT !.val = <<ch>>])
    ELSE makeToken(ReadRune(l))

\* a lexer that takes ';' for a character of the word
LexSemicolonGlued(l, ch) == [ReadRune(l) EXCEPT !.val = Append(l.val, ch)]

\* ch == ';' : with a pending token the rune is unread
LexSemicolon(l, ch) ==
    IF Len(l.val) = 0
    THEN makeToken([ReadRune(l) EXCEPT !.val = <<ch>>])
    ELSE makeToken(l)

\* ch == '#' sets comment; while comment is set the rune is skipped
LexComment(l, ch) == [ReadRune(l) EXCEPT !.comment = TRUE]

\* the first rune of a token stamps it and may open a quote
LexPlain(l, ch) ==
    LET r == ReadRune(l)
        s == [r EXCEPT !.token = [file |-> l.file, line |-> l.line, text |-> <<>>]]
    IN IF Len(l.val) = 0
       THEN IF ch \in {"\"", "'"}
            THEN [s EXCEPT !.quoted = ch]
            ELSE [s EXCEPT !.val = <<ch>>]
       ELSE [r EXCEPT !.val = Append(l.val, ch)]

\* which branch of nextToken's loop body the next rune takes
LexBranch(input, l) ==
    IF l.pos >= Len(input) THEN "eof"
    ELSE LET ch == input[l.pos + 1]
         IN IF l.quoted # NoQuote THEN "quoted"
            ELSE IF IsSpace(ch) THEN "space"
            ELSE IF ch = ";" THEN "semicolon"
            ELSE IF ch = "#" \/ l.comment THEN "comment"
            ELSE "plain"

\* one pass of the loop of nextToken
LexStep(input, l) ==
    LET b == LexBranch(input, l)
        ch == input[l.pos + 1]
    IN CASE b = "eof" -> LexEOF(l)
         [] b = "quoted" -> LexQuoted(l, ch)
         [] b = "space" -> LexSpace(l, ch)
         [] b = "semicolon" -> LexSemicolon(l, ch)
         [] b = "comment" -> LexComment(l, ch)
         [] OTHER -> LexPlain(l, ch)

RECURSIVE RunLexer(_, _)
RunLexer(input, l) == IF l.done THEN l ELSE RunLexer(input, LexStep(input, l))

\* "nginx.conf", the name tokenize gives its lexer
NginxConf == <<"n", "g", "i", "n", "x", ".", "c", "o", "n", "f">>

tokenize(input) == RunLexer(input, newLexer(NginxConf)).tokens

\* for i := range tokens { tokens[i].file = filename }
Retag(ts, filename) == [i \in 1..Len(ts) |-> [ts[i] EXCEPT !.file = filename]]

allTokens(filename, input) == Retag(tokenize(input), filename)

Texts(ts) == [i \in 1..Len(ts) |-> ts[i].text]

-----------------------------------------------------------------------------
(* Paths: filepath.Clean, filepath.Join, filepath.IsAbs, filepath.Glob.     *)

Slash == "/"

\* the elements of a path between its separators (empty ones included)
RECURSIVE SplitPath(_, _, _)
SplitPath(path, cur, acc) ==
    IF path = <<>> THEN Append(acc, cur)
    ELSE IF Head(path) = Slash THEN SplitPath(Tail(path), <<>>, Append(acc, cur))
    ELSE SplitPath(Tail(path), Append(cur, Head(path)), acc)

DotDot == <<".", ".">>

\* Clean's pass over the elements: "." and empty elements go, ".." removes the
\* element before it, and a ".." that would climb above the root goes.
RECURSIVE CleanElems(_, _, _)
CleanElems(elems, rooted, out) ==
    IF elems = <<>> THEN out
    ELSE LET e == Head(elems)
             rest == Tail(elems)
         IN IF e = <<>> \/ e = <<".">> THEN CleanElems(rest, rooted, out)
            ELSE IF e = DotDot
            THEN IF out # <<>> /\ Last(out) # DotDot
                 THEN CleanElems(rest, rooted, Front(out))
                 ELSE IF rooted THEN CleanElems(rest, rooted, out)
                 ELSE CleanElems(rest, rooted, Append(out, e))
            ELSE CleanElems(rest, rooted, Append(out, e))

RECURSIVE JoinElems(_)
JoinElems(elems) ==
    IF elems = <<>> THEN <<>>
    ELSE IF Len(elems) = 1 THEN Head(elems)
    ELSE Head(elems) \o <<Slash>> \o JoinElems(Tail(elems))

IsAbs(path) == path # <<>> /\ Head(path) = Slash

\* filepath.Clean
Clean(path) ==
    LET rooted == IsAbs(path)
        out == JoinElems(CleanElems(SplitPath(path, <<>>, <<>>), rooted, <<>>))
        res == (IF rooted THEN <<Slash>> ELSE <<>>) \o out
    IN IF res = <<>> THEN <<".">> ELSE res

\* filepath.Join of three elements
Join(a, b, c) ==
    LET parts == SelectSeq(<<a, b, c>>, LAMBDA e : e # <<>>)
    IN IF parts = <<>> THEN <<>> ELSE Clean(JoinElems(parts))

\* filepath.Match on a pattern of literals, "*" and "?"
RECURSIVE Match(_, _)
Match(pattern, name) ==
    IF pattern = <<>> THEN name = <<>>
    ELSE IF Head(pattern) = "*"
    THEN \/ Match(Tail(pattern), name)
         \/ name # <<>> /\ Head(name) # Slash /\ Match(pattern, Tail(name))
    ELSE IF name = <<>> THEN FALSE
    ELSE IF Head(pattern) = "?"
    THEN Head(name) # Slash /\ Match(Tail(pattern), Tail(name))
    ELSE Head(pattern) = Head(name) /\ Match(Tail(pattern), Tail(name))

-----------------------------------------------------------------------------
(* The filesystem the includes are resolved against, in path order.         *)

nginxConfPrefix == <<"/", "e", "t", "c", "/", "n", "g", "i", "n", "x">>

nginxConfDirs ==
    << <<"c", "o", "n", "f", ".", "d", "/">>,
       <<"m", "o", "d", "u", "l", "e", "s", "-", "a", "v", "a", "i", "l", "a", "b", "l", "e", "/">>,
       <<"m", "o", "d", "u", "l", "e", "s", "-", "e", "n", "a", "b", "l", "e", "d", "/">>,
       <<"s", "i", "t", "e", "s", "-", "a", "v", "a", "i", "l", "a", "b", "l", "e", "/">>,
       <<"s", "i", "t", "e", "s", "-", "e", "n", "a", "b", "l", "e", "d", "/">>,
       <<"s", "n", "i", "p", "p", "e", "t", "s", "/">> >>

nginxStdConfs ==
    << <<"f", "a", "s", "t", "c", "g", "i", ".", "c", "o", "n", "f">>,
       <<"f", "a", "s", "t", "c", "g", "i", "_", "p", "a", "r", "a", "m", "s">>,
       <<"k", "o", "i", "-", "u", "t", "f">>,
       <<"k", "o", "i", "-", "w", "i", "n">>,
       <<"m", "i", "m", "e", ".", "t", "y", "p", "e", "s">>,
       <<"n", "g", "i", "n", "x", ".", "c", "o", "n", "f">>,
       <<"p", "r", "o", "x", "y", "_", "p", "a", "r", "a", "m", "s">>,
       <<"s", "c", "g", "i", "_", "p", "a", "r", "a", "m", "s">>,
       <<"u", "w", "s", "g", "i", "_", "p", "a", "r", "a", "m", "s">>,
       <<"w", "i", "n", "-", "u", "t", "f">> >>

File(path, content) == [path |-> path, kind |-> "file", content |-> content]
Dir(path) == [path |-> path, kind |-> "dir", content |-> <<>>]

FileSystem ==
    << Dir(<<"/", "e", "t", "c", "/", "n", "g", "i", "n", "x", "/", "c", "o", "n", "f", ".", "d">>),
       File(<<"/", "e", "t", "c", "/", "n", "g", "i", "n", "x", "/", "c", "o", "n", "f", ".", "d", "/", "f">>, <<"c", ";", "\n", "d", " ", "e", ";", "\n">>),
       File(<<"/", "e", "t", "c", "/", "n", "g", "i", "n", "x", "/", "c", "o", "n", "f", ".", "d", "/", "g", "2">>, <<"x", ";", "\n">>),
       File(<<"/", "e", "t", "c", "/", "n", "g", "i", "n", "x", "/", "c", "o", "n", "f", ".", "d", "/", "h">>, <<"i", "n", "c", "l", "u", "d", "e", " ", "f", ";", "\n">>),
       File(<<"/", "e", "t", "c", "/", "n", "g", "i", "n", "x", "/", "c", "o", "n", "f", ".", "d", "/", "m", "i", "m", "e", ".", "t", "y", "p", "e", "s">>, <<"k", ";", "\n">>),
       Dir(<<"/", "e", "t", "c", "/", "n", "g", "i", "n", "x", "/", "c", "o", "n", "f", ".", "d", "/", "u">>),
       File(<<"/", "e", "t", "c", "/", "n", "g", "i", "n", "x", "/", "m", "i", "m", "e", ".", "t", "y", "p", "e", "s">>, <<"m", ";", "\n">>),
       File(<<"/", "e", "t", "c", "/", "n", "g", "i", "n", "x", "/", "s", "i", "t", "e", "s", "-", "e", "n", "a", "b", "l", "e", "d", "/", "k", "k">>, <<"a", ";", "\n", "i", "n", "c", "l", "u", "d", "e", " ", "k", "k", ";", "\n">>),
       File(<<"/", "e", "t", "c", "/", "n", "g", "i", "n", "x", "/", "s", "i", "t", "e", "s", "-", "e", "n", "a", "b", "l", "e", "d", "/", "z", "z">>, <<"i", "n", "c", "l", "u", "d", "e", " ", "z", "z", ";", "\n">>),
       Dir(<<"/", "e", "t", "c", "/", "n", "g", "i", "n", "x", "/", "s", "n", "i", "p", "p", "e", "t", "s">>),
       File(<<"/", "e", "t", "c", "/", "n", "g", "i", "n", "x", "/", "s", "n", "i", "p", "p", "e", "t", "s", "/", "g", "1">>, <<"y", ";", "\n">>),
       File(<<"/", "q">>, <<"q", ";", "\n">>) >>

Exists(path) == \E i \in 1..Len(FileSystem) : FileSystem[i].path = path

Entry(path) == CHOOSE e \in {FileSystem[i] : i \in 1..Len(FileSystem)} : e.path = path

\* filepath.Glob: ErrBadPattern on an unclosed "[" (the only bracket that
\* reaches it: doInclude turns down a pattern holding both "[" and "]"), else
\* the matching paths in order.
Paths(entries) == [i \in 1..Len(entries) |-> entries[i].path]

Glob(pattern) ==
    IF Contains(pattern, "[")
    THEN [err |-> TRUE, matches |-> <<>>]
    ELSE [err |-> FALSE,
          matches |-> Paths(SelectSeq(FileSystem, LAMBDA e : Match(pattern, e.path)))]

\* os.Stat reporting that the path does not exist
StatNotExist(path) == ~Exists(path) \/ Entry(path).kind = "dangling"

-----------------------------------------------------------------------------
(* Include resolution: nginxParser.doInclude and doSingleInclude.           *)

Include == <<"i", "n", "c", "l", "u", "d", "e">>

Nil == <<>>

FsOp(op, path) == [op |-> op, path |-> path]

\* a pattern test that lets a character class through when it stands alone
PatternRejectedAlone(includeArg) ==
    \/ Count(includeArg, "*") > 1
    \/ Count(includeArg, "?") > 1
    \/ /\ Contains(includeArg, "[") /\ Contains(includeArg, "]")
       /\ Contains(includeArg, "*") \/ Contains(includeArg, "?")

\* a pattern test that lets any number of "*" through
PatternRejectedLax(includeArg) ==
    \/ Count(includeArg, "?") > 1
    \/ Contains(includeArg, "[") /\ Contains(includeArg, "]")

\* the pattern test at the head of doInclude
PatternRejected(includeArg) ==
    \/ Count(includeArg, "*") > 1
    \/ Count(includeArg, "?") > 1
    \/ Contains(includeArg, "[") /\ Contains(includeArg, "]")

\* os.Stat on each match of the absolute pattern keeps those that exist
StatMatches(includeArg, g) ==
    [err |-> g.err,
     files |-> IF g.err THEN <<>>
               ELSE SelectSeq(g.matches, LAMBDA v : ~StatNotExist(v)),
     ops |-> <<FsOp("glob", includeArg)>>
             \o [i \in 1..Len(g.matches) |-> FsOp("stat", g.matches[i])]]

\* if filepath.IsAbs(includeArg) { matches, err := filepath.Glob(includeArg) ...
AbsoluteMatches(includeArg) ==
    IF ~IsAbs(includeArg) THEN [err |-> FALSE, files |-> <<>>, ops |-> <<>>]
    ELSE StatMatches(includeArg, Glob(includeArg))

\* for _, v := range nginxStdConfs
StandardFile(includeArg) ==
    IF \E i \in 1..Len(nginxStdConfs) : nginxStdConfs[i] = includeArg
    THEN <<Join(nginxConfPrefix, includeArg, <<>>)>>
    ELSE <<>>

\* the matches of one subdirectory joined to acc = [err, files, ops]
AddMatches(acc, pattern, g) ==
    [err |-> g.err,
     files |-> acc.files \o g.matches,
     ops |-> Append(acc.ops, FsOp("glob", pattern))]

GlobInto(acc, pattern) == AddMatches(acc, pattern, Glob(pattern))

\* for _, v := range nginxConfDirs, stopping at the first Glob error
RECURSIVE SubdirMatches(_, _, _)
SubdirMatches(dirs, includeArg, acc) ==
    IF dirs = <<>> \/ acc.err THEN acc
    ELSE SubdirMatches(Tail(dirs), includeArg,
             GlobInto(acc, Clean(Join(nginxConfPrefix, Head(dirs), includeArg))))

\* if len(importedFiles) == 0 { ... }
RelativeMatches(includeArg, abs) ==
    IF abs.err \/ Len(abs.files) # 0 THEN abs
    ELSE SubdirMatches(nginxConfDirs, includeArg,
             [err |-> FALSE, files |-> StandardFile(includeArg), ops |-> abs.ops])

\* the files doInclude decides to import
ImportedFiles(includeArg) == RelativeMatches(includeArg, AbsoluteMatches(includeArg))

\* doSingleInclude
doSingleInclude(importFile) ==
    IF ~Exists(importFile) \/ Entry(importFile).kind \notin {"file", "dir"}
    THEN [err |-> TRUE, tokens |-> <<>>]
    ELSE IF Entry(importFile).kind = "dir"
    THEN [err |-> TRUE, tokens |-> <<>>]
    ELSE [err |-> FALSE, tokens |-> allTokens(importFile, Entry(importFile).content)]

\* one file's tokens joined to acc = [err, path, tokens, ops]
AddTokens(acc, importFile, r) ==
    [err |-> r.err,
     path |-> IF r.err THEN importFile ELSE <<>>,
     tokens |-> acc.tokens \o r.tokens,
     ops |-> Append(acc.ops, FsOp("open", importFile))]

\* for _, importFile := range importedFiles, stopping at the first error
RECURSIVE ImportedTokens(_, _)
ImportedTokens(files, acc) ==
    IF files = <<>> \/ acc.err THEN acc
    ELSE ImportedTokens(Tail(files),
             AddTokens(acc, Head(files), doSingleInclude(Head(files))))

\* a splice that removes `include` and its argument only
SpliceTwo(toks, cur, importedTokens) ==
    SubSeq(toks, 1, cur - 1) \o importedTokens \o SubSeq(toks, cur + 2, Len(toks))

\* the splice that ends doInclude: tokens[:cursor-1] ++ imported ++ tokens[cursor+2:]
Splice(toks, cur, importedTokens) ==
    SubSeq(toks, 1, cur - 1) \o importedTokens \o SubSeq(toks, cur + 3, Len(toks))

IncludeResult(status, toks, cur, ops, err) ==
    [status |-> status, tokens |-> toks, cursor |-> cur, ops |-> ops, err |-> err]

\* a doInclude that splices what it had read when a file fails
IncludeReadPartial(toks, cur, read) ==
    IF read.err
    THEN IncludeResult("err", Splice(toks, cur, read.tokens), cur, read.ops,
                       [kind |-> "import", what |-> read.path])
    ELSE IF cur + 2 > Len(toks)
    THEN IncludeResult("panic", toks, cur, read.ops, "slice bounds out of range")
    ELSE IncludeResult("ok", Splice(toks, cur, read.tokens), cur - 1, read.ops, Nil)

\* doInclude from the reading of the files on
IncludeRead(toks, cur, read) ==
    IF read.err
    THEN IncludeResult("err", toks, cur, read.ops, [kind |-> "import", what |-> read.path])
    ELSE IF cur + 2 > Len(toks)
    THEN IncludeResult("panic", toks, cur, read.ops, "slice bounds out of range")
    ELSE IncludeResult("ok", Splice(toks, cur, read.tokens), cur - 1, read.ops, Nil)

\* doInclude from the choice of the files on
IncludeFound(toks, cur, includeArg, found) ==
    IF found.err
    THEN IncludeResult("err", toks, cur, found.ops, [kind |-> "glob", what |-> includeArg])
    ELSE IncludeRead(toks, cur,
             ImportedTokens(found.files,
                 [err |-> FALSE, path |-> <<>>, tokens |-> <<>>, ops |-> found.ops]))

\* doInclude from the pattern test on
IncludeArg(toks, cur, includeArg) ==
    IF PatternRejected(includeArg)
    THEN IncludeResult("err", toks, cur, <<>>, [kind |-> "pattern", what |-> includeArg])
    ELSE IncludeFound(toks, cur, includeArg, ImportedFiles(includeArg))

\* doInclude, called with the cursor on the token after "include"
doInclude(toks, cur) ==
    IF cur >= Len(toks)
    THEN IncludeResult("panic", toks, cur, <<>>, "index out of range")
    ELSE IncludeArg(toks, cur, Clean(toks[cur + 1].text))

-----------------------------------------------------------------------------
(* The parser: nginxParser.nextBlock and nginxParser.next as an explicit     *)
(* stack of calls.                                                          *)

\* Directive; a nil Block is the empty sequence
Directive(file, line) == [Params |-> Nil, Block |-> Nil, File |-> file, Line |-> line]

BlockFrame == [fn |-> "nextBlock", dirs |-> Nil]

DirFrame(dir) == [fn |-> "next", dir |-> dir, at |-> "loop"]

Top == stack[Len(stack)]

InBlock == pc = "parse" /\ Top.fn = "nextBlock"

InNext == pc = "parse" /\ Top.fn = "next" /\ Top.at = "loop"

AtEnd == cursor >= Len(tokens)

Current == tokens[cursor + 1]

Semicolon == <<";">>
OpenBrace == <<"{">>
CloseBrace == <<"}">>

\* next returns dir to the nextBlock that called it, which appends it
ReturnDirective(stk, dir) ==
    LET caller == stk[Len(stk) - 1]
    IN Append(SubSeq(stk, 1, Len(stk) - 2),
              [caller EXCEPT !.dirs = Append(caller.dirs, dir)])

\* a next that forgets dir.Block = dirs
ReturnBlockForgot ==
    IF Len(stack) = 1
    THEN /\ stack' = <<>>
         /\ ret' = [status |-> "ok", dirs |-> Top.dirs, err |-> Nil]
         /\ pc' = "parsed"
    ELSE /\ stack' = ReturnDirective(Front(stack), stack[Len(stack) - 1].dir)
         /\ UNCHANGED <<ret, pc>>

\* nextBlock returns its dirs: to parse, or to the next that met "{", which
\* stores them as its Block and returns in turn
ReturnBlock ==
    IF Len(stack) = 1
    THEN /\ stack' = <<>>
         /\ ret' = [status |-> "ok", dirs |-> Top.dirs, err |-> Nil]
         /\ pc' = "parsed"
    ELSE /\ stack' = ReturnDirective(Front(stack),
                         [stack[Len(stack) - 1].dir EXCEPT !.Block = Top.dirs])
         /\ UNCHANGED <<ret, pc>>

\* a nextBlock that returns what it had parsed along with the error
BlockErrorPartial(frame, err) == [status |-> "err", dirs |-> frame.dirs, err |-> err]

\* nextBlock: if err != nil { return nil, err }
BlockError(frame, err) == [status |-> "err", dirs |-> Nil, err |-> err]

Unwinding == pc = "unwind"

-----------------------------------------------------------------------------
(* The lexer specification: tokenize on every text of at most MaxLen        *)
(* characters, one rune a step.                                             *)

LexAlphabet == {"a", " ", "\n", "\r", ";", "#", "\"", "'", "\\", "{", "}"}

Idle ==
    /\ tokens = <<>> /\ cursor = 0 /\ stack = <<>>
    /\ ret = [status |-> "none"] /\ fsLog = <<>>
    /\ adapted = [status |-> "none"]
    /\ ss = [servers |-> <<>>]
    /\ ctx = [fn |-> "none"]

InitLex ==
    /\ body \in BSeq(LexAlphabet, MaxLen)
    /\ lex = newLexer(NginxConf)
    /\ pc = "lexing"
    /\ Idle

\* ReadRune fails: the input is exhausted
ReadEOF ==
    /\ pc = "lexing"
    /\ ~lex.done
    /\ LexBranch(body, lex) = "eof"
    /\ lex' = LexStep(body, lex)
    /\ UNCHANGED <<body, pc, tokens, cursor, stack, ret, fsLog, adapted, ss, ctx>>

\* a rune inside a quoted token
ReadQuoted ==
    /\ pc = "lexing"
    /\ ~lex.done
    /\ LexBranch(body, lex) = "quoted"
    /\ lex' = LexStep(body, lex)
    /\ UNCHANGED <<body, pc, tokens, cursor, stack, ret, fsLog, adapted, ss, ctx>>

\* a whitespace rune outside quotes
ReadSpace ==
    /\ pc = "lexing"
    /\ ~lex.done
    /\ LexBranch(body, lex) = "space"
    /\ lex' = LexStep(body, lex)
    /\ UNCHANGED <<body, pc, tokens, cursor, stack, ret, fsLog, adapted, ss, ctx>>

\* a semicolon outside quotes
ReadSemicolon ==
    /\ pc = "lexing"
    /\ ~lex.done
    /\ LexBranch(body, lex) = "semicolon"
    /\ lex' = LexStep(body, lex)
    /\ UNCHANGED <<body, pc, tokens, cursor, stack, ret, fsLog, adapted, ss, ctx>>

\* a "#" or a rune of a comment
ReadComment ==
    /\ pc = "lexing"
    /\ ~lex.done
    /\ LexBranch(body, lex) = "comment"
    /\ lex' = LexStep(body, lex)
    /\ UNCHANGED <<body, pc, tokens, cursor, stack, ret, fsLog, adapted, ss, ctx>>

\* any other rune
ReadPlain ==
    /\ pc = "lexing"
    /\ ~lex.done
    /\ LexBranch(body, lex) = "plain"
    /\ lex' = LexStep(body, lex)
    /\ UNCHANGED <<body, pc, tokens, cursor, stack, ret, fsLog, adapted, ss, ctx>>

\* tokenize returns its slice
TokenizeReturn ==
    /\ pc = "lexing"
    /\ lex.done
    /\ pc' = "lexed"
    /\ tokens' = lex.tokens
    /\ UNCHANGED <<body, lex, cursor, stack, ret, fsLog, adapted, ss, ctx>>

NextLex ==
    \/ ReadEOF
    \/ ReadQuoted
    \/ ReadSpace
    \/ ReadSemicolon
    \/ ReadComment
    \/ ReadPlain
    \/ TokenizeReturn

SpecLex == InitLex /\ [][NextLex]_vars

\* tokenize calls nextToken in a loop that nothing interrupts, and
\* nextToken reads a rune in each round of its own: a step that can be taken
\* is taken.
SpecLexFair == InitLex /\ [][NextLex]_vars /\ WF_vars(NextLex)


-----------------------------------------------------------------------------
(* The adapter specification: Adapt on every configuration of at most       *)
(* MaxLines lines drawn from ConfLines.                                     *)

ConfLines ==
    { <<"a", ";">>,
      <<"b", " ", "c", ";">>,
      <<"s", " ", "{">>,
      <<"}">>,
      <<"}", " ", "a", ";">>,
      <<"t", " ", "{", " ", "b", ";", " ", "}">>,
      <<"i", "n", "c", "l", "u", "d", "e", " ", "f", ";">>,
      <<"i", "n", "c", "l", "u", "d", "e", " ", "f">>,
      <<"i", "n", "c", "l", "u", "d", "e", " ", "g", "*", ";">>,
      <<"i", "n", "c", "l", "u", "d", "e", " ", "p", "*", "/", ".", ".", "/", "g", "*", ";">>,
      <<"i", "n", "c", "l", "u", "d", "e", " ", "*", "g", "*", ";">>,
      <<"i", "n", "c", "l", "u", "d", "e", " ", "n", ";">>,
      <<"i", "n", "c", "l", "u", "d", "e", " ", "u", ";">>,
      <<"i", "n", "c", "l", "u", "d", "e", " ", "[", ";">>,
      <<"i", "n", "c", "l", "u", "d", "e", " ", "h", ";">>,
      <<"i", "n", "c", "l", "u", "d", "e", " ", "/", "q", ";">> }

\* the text of a configuration: its lines, each ended by a line feed
Text(lines) == Flatten([i \in 1..Len(lines) |-> Append(lines[i], "\n")])

ConfWords == {<<"a">>, <<"b">>, <<";">>, <<"{">>, <<"}">>}

\* the text of a one-line configuration: its words, a space after each
Line(words) == Flatten([i \in 1..Len(words) |-> Append(words[i], " ")])

Init ==
    /\ body \in {Text(ls) : ls \in BSeq(ConfLines, MaxLines)}
               \cup {Line(ws) : ws \in BSeq(ConfWords, MaxWords)}
    /\ lex = newLexer(NginxConf)
    /\ pc = "adapt"
    /\ Idle

\* Adapt: tokens := tokenize(body), then parse(tokens) builds the parser and
\* calls nextBlock
AdaptTokenize ==
    /\ pc = "adapt"
    /\ lex' = RunLexer(body, lex)
    /\ tokens' = lex'.tokens
    /\ cursor' = 0
    /\ stack' = <<BlockFrame>>
    /\ pc' = "parse"
    /\ UNCHANGED <<body, ret, fsLog, adapted, ss, ctx>>

\* nextBlock: if p.cursor >= len(p.tokens) { break }
NextBlockEnd ==
    /\ InBlock
    /\ AtEnd
    /\ ReturnBlock
    /\ UNCHANGED <<body, lex, tokens, cursor, fsLog, adapted, ss, ctx>>

\* a nextBlock that leaves the cursor on the "}" it stops at
NextBlockCloseKept ==
    /\ InBlock
    /\ ~AtEnd
    /\ Current.text = CloseBrace
    /\ ReturnBlock
    /\ UNCHANGED <<body, lex, tokens, cursor, fsLog, adapted, ss, ctx>>

\* nextBlock: if p.tokens[p.cursor].text == "}" { p.cursor++; break }
NextBlockClose ==
    /\ InBlock
    /\ ~AtEnd
    /\ Current.text = CloseBrace
    /\ cursor' = cursor + 1
    /\ ReturnBlock
    /\ UNCHANGED <<body, lex, tokens, fsLog, adapted, ss, ctx>>

\* nextBlock calls next, which starts a Directive stamped from the token at
\* the cursor
NextBlockDirective ==
    /\ InBlock
    /\ ~AtEnd
    /\ Current.text # CloseBrace
    /\ stack' = Append(stack, DirFrame(Directive(Current.file, Current.line)))
    /\ UNCHANGED <<body, lex, pc, tokens, cursor, ret, fsLog, adapted, ss, ctx>>

\* next: the loop ends at the end of the tokens
NextEnd ==
    /\ InNext
    /\ AtEnd
    /\ stack' = ReturnDirective(stack, Top.dir)
    /\ UNCHANGED <<body, lex, pc, tokens, cursor, ret, fsLog, adapted, ss, ctx>>

\* next: if tkn.text == ";" { p.cursor++; break }
NextSemicolon ==
    /\ InNext
    /\ ~AtEnd
    /\ Current.text = Semicolon
    /\ cursor' = cursor + 1
    /\ stack' = ReturnDirective(stack, Top.dir)
    /\ UNCHANGED <<body, lex, pc, tokens, ret, fsLog, adapted, ss, ctx>>

\* next: if tkn.text == "{" { p.cursor++; dirs, err := p.nextBlock() ...
NextOpenBlock ==
    /\ InNext
    /\ ~AtEnd
    /\ Current.text = OpenBrace
    /\ cursor' = cursor + 1
    /\ stack' = Append(stack, BlockFrame)
    /\ UNCHANGED <<body, lex, pc, tokens, ret, fsLog, adapted, ss, ctx>>

\* next: if tkn.text == "include" { p.cursor++; err := p.doInclude() ...
NextInclude ==
    /\ InNext
    /\ ~AtEnd
    /\ Current.text = Include
    /\ Len(tokens) <= MaxTokens
    /\ \E r \in {doInclude(tokens, cursor + 1)} :
          /\ fsLog' = fsLog \o r.ops
          /\ tokens' = r.tokens
          /\ cursor' = r.cursor
          /\ CASE r.status = "ok" ->
                    /\ stack' = [stack EXCEPT ![Len(stack)].at = "included"]
                    /\ UNCHANGED <<pc, ret>>
               [] r.status = "err" ->
                    /\ stack' = Front(stack)
                    /\ ret' = [status |-> "raised", err |-> r.err]
                    /\ pc' = "unwind"
               [] OTHER ->
                    /\ stack' = stack
                    /\ ret' = [status |-> "panic", dirs |-> Nil, err |-> r.err]
                    /\ pc' = "panic"
    /\ UNCHANGED <<body, lex, adapted, ss, ctx>>

\* next, after doInclude: tkn = p.tokens[p.cursor]; dir.File = tkn.file;
\* dir.Line = tkn.line; then the append and the loop's p.cursor++
NextIncluded ==
    /\ pc = "parse"
    /\ Top.fn = "next"
    /\ Top.at = "included"
    /\ IF AtEnd
       THEN /\ ret' = [status |-> "panic", dirs |-> Nil, err |-> "index out of range"]
            /\ pc' = "panic"
            /\ UNCHANGED <<stack, cursor>>
       ELSE /\ stack' = [stack EXCEPT ![Len(stack)] =
                            [fn |-> "next", at |-> "loop",
                             dir |-> [Top.dir EXCEPT !.File = Current.file,
                                                     !.Line = Current.line,
                                                     !.Params = Append(@, Current.text)]]]
            /\ cursor' = cursor + 1
            /\ UNCHANGED <<ret, pc>>
    /\ UNCHANGED <<body, lex, tokens, fsLog, adapted, ss, ctx>>

\* next: dir.Params = append(dir.Params, tkn.text), and the loop's p.cursor++
\* A next() that puts each new parameter in front of the ones it has.
NextParamPrepend ==
    /\ InNext
    /\ ~AtEnd
    /\ Current.text \notin {Semicolon, OpenBrace, Include}
    /\ stack' = [stack EXCEPT ![Len(stack)].dir.Params = <<Current.text>> \o @]
    /\ cursor' = cursor + 1
    /\ UNCHANGED <<body, lex, pc, tokens, ret, fsLog, adapted, ss, ctx>>

NextParam ==
    /\ InNext
    /\ ~AtEnd
    /\ Current.text \notin {Semicolon, OpenBrace, Include}
    /\ stack' = [stack EXCEPT ![Len(stack)].dir.Params = Append(@, Current.text)]
    /\ cursor' = cursor + 1
    /\ UNCHANGED <<body, lex, pc, tokens, ret, fsLog, adapted, ss, ctx>>

\* nextBlock: dir, err := p.next(); if err != nil { return nil, err }
NextBlockError ==
    /\ Unwinding
    /\ Top.fn = "nextBlock"
    /\ stack' = Front(stack)
    /\ IF Len(stack) = 1
       THEN /\ ret' = BlockError(Top, ret.err)
            /\ pc' = "parsed"
       ELSE UNCHANGED <<ret, pc>>
    /\ UNCHANGED <<body, lex, tokens, cursor, fsLog, adapted, ss, ctx>>

\* next: dirs, err := p.nextBlock(); if err != nil { return Directive{}, err }
NextError ==
    /\ Unwinding
    /\ Top.fn = "next"
    /\ stack' = Front(stack)
    /\ UNCHANGED <<body, lex, pc, tokens, cursor, ret, fsLog, adapted, ss, ctx>>

\* Adapt: if err != nil { return nil, nil, fmt.Errorf("parsing: %v", err) }
AdaptParseError ==
    /\ pc = "parsed"
    /\ ret.status = "err"
    /\ adapted' = [status |-> "err", out |-> Nil, warnings |-> Nil, err |-> ret.err]
    /\ pc' = "done"
    /\ UNCHANGED <<body, lex, tokens, cursor, stack, ret, fsLog, ss, ctx>>

\* Adapt: parse succeeded, the directives go on to ss.mainContext(dirs)
AdaptSetup ==
    /\ pc = "parsed"
    /\ ret.status = "ok"
    /\ pc' = "setup"
    /\ UNCHANGED <<body, lex, tokens, cursor, stack, ret, fsLog, adapted, ss, ctx>>

Next ==
    \/ AdaptTokenize
    \/ NextBlockEnd
    \/ NextBlockClose
    \/ NextBlockDirective
    \/ NextEnd
    \/ NextSemicolon
    \/ NextOpenBlock
    \/ NextInclude
    \/ NextIncluded
    \/ NextParam
    \/ NextBlockError
    \/ NextError
    \/ AdaptParseError
    \/ AdaptSetup

Spec == Init /\ [][Next]_vars

-----------------------------------------------------------------------------
(* The include specification: Adapt on every configuration of at most       *)
(* MaxIncludeLines lines drawn from IncludeLines, the spellings of an       *)
(* include and of its argument.                                             *)

IncludeLines ==
    { <<"a", ";">>,
      <<"s", " ", "{">>,
      <<"}">>,
      <<"c">>,
      <<"b", " ", "i", "n", "c", "l", "u", "d", "e", " ", "f", ";">>,
      <<"i", "n", "c", "l", "u", "d", "e", " ", "m", "i", "m", "e", ".", "t", "y", "p", "e", "s", ";">>,
      <<"i", "n", "c", "l", "u", "d", "e", " ", "[", "f", "]", ";">>,
      <<"i", "n", "c", "l", "u", "d", "e", " ", "g", "?", ";">>,
      <<"i", "n", "c", "l", "u", "d", "e", " ", "?", "?", ";">>,
      <<"i", "n", "c", "l", "u", "d", "e", " ", "*", "g", "*", ";">>,
      <<"i", "n", "c", "l", "u", "d", "e", " ", "u", ";">>,
      <<"i", "n", "c", "l", "u", "d", "e", " ", "?", ";">>,
      <<"i", "n", "c", "l", "u", "d", "e", " ", "z", "z", ";">>,
      <<"i", "n", "c", "l", "u", "d", "e", " ", "k", "k", ";">>,
      <<"i", "n", "c", "l", "u", "d", "e">>,
      <<"\"", ";", "\"">>,
      <<"s", " ", "\"", "{", "\"">> }

InitInclude ==
    /\ body \in {Text(ls) : ls \in BSeq(IncludeLines, MaxIncludeLines)}
    /\ lex = newLexer(NginxConf)
    /\ pc = "adapt"
    /\ Idle

SpecInclude == InitInclude /\ [][Next]_vars

-----------------------------------------------------------------------------
(* The setup of servers: httpContext and serverContext.                     *)

HasPrefix(s, prefix) ==
    Len(s) >= Len(prefix) /\ SubSeq(s, 1, Len(prefix)) = prefix

Digits == <<"0", "1", "2", "3", "4", "5", "6", "7", "8", "9">>

IsDigit(ch) == \E d \in 1..10 : Digits[d] = ch

\* strconv.Atoi succeeds: an optional sign and at least one digit
isNumeric(s) ==
    \E from \in {IF s # <<>> /\ s[1] \in {"+", "-"} THEN 2 ELSE 1} :
        /\ from <= Len(s)
        /\ \A i \in from..Len(s) : IsDigit(s[i])

RECURSIVE Itoa(_)
Itoa(n) == IF n < 10 THEN <<Digits[n + 1]>> ELSE Append(Itoa(n \div 10), Digits[(n % 10) + 1])

\* Directive.Param and Directive.Name
Param(dir, idx) == IF idx < Len(dir.Params) THEN dir.Params[idx + 1] ELSE <<>>

Name(dir) == Param(dir, 0)

\* a directive with these params and this block
Stmt(params, block) == [Directive(NginxConf, 1) EXCEPT !.Params = params, !.Block = block]

Warning(dir, message) ==
    [File |-> dir.File, Line |-> dir.Line, Directive |-> Name(dir), Message |-> message]

NewServer == [Listen |-> Nil, Routes |-> Nil]

NewRoute == [MatcherSetsRaw |-> Nil, HandlersRaw |-> Nil]

RouteEmpty(route) == route.MatcherSetsRaw = Nil /\ route.HandlersRaw = Nil

\* the listener address of a listen directive
ListenAddr(addr) ==
    IF HasPrefix(addr, <<"u", "n", "i", "x", ":">>)
    THEN <<"u", "n", "i", "x", "/">> \o SubSeq(addr, 6, Len(addr))
    ELSE IF isNumeric(addr) THEN <<":">> \o addr
    ELSE addr

\* a server pretended to hold no address
HoldersNone(servers, addr) == {}

\* the names of the servers that listen on addr
Holders(servers, addr) ==
    {name \in DOMAIN servers : Contains(servers[name].Listen, addr)}

\* the map with srv stored under name
Store(servers, name, srv) ==
    [n \in DOMAIN servers \cup {name} |-> IF n = name THEN srv ELSE servers[n]]

\* the server srv points to
Srv == IF ctx.shared THEN ss.servers[ctx.srvName] ELSE ctx.srv

\* srv.<field> = ... through the pointer
Assign(srv) ==
    IF ctx.shared
    THEN /\ ss' = [ss EXCEPT !.servers = Store(@, ctx.srvName, srv)]
         /\ ctx' = [ctx EXCEPT !.j = @ + 1]
    ELSE /\ ctx' = [ctx EXCEPT !.srv = srv, !.j = @ + 1]
         /\ UNCHANGED ss

InHttp == ctx.fn = "httpContext" /\ ctx.i <= Len(ctx.dirs)

InServer == ctx.fn = "serverContext" /\ ctx.j <= Len(ctx.block)

Listen == <<"l", "i", "s", "t", "e", "n">>

Server == <<"s", "e", "r", "v", "e", "r">>

ServerName == <<"s", "e", "r", "v", "e", "r", "_", "n", "a", "m", "e">>

Root == <<"r", "o", "o", "t">>

Parsing == <<body, lex, pc, tokens, cursor, stack, ret, fsLog, adapted>>

HttpServer ==
    /\ InHttp
    /\ Name(ctx.dirs[ctx.i]) = Server
    /\ ctx' = [ctx EXCEPT !.fn = "serverContext",
                          !.block = ctx.dirs[ctx.i].Block,
                          !.j = 1,
                          !.srv = NewServer,
                          !.shared = FALSE,
                          !.srvName = <<"s", "e", "r", "v", "e", "r", "_">>
                                         \o Itoa(Cardinality(DOMAIN ss.servers)),
                          !.route = NewRoute]
    /\ UNCHANGED <<Parsing, ss>>

HttpUnrecognized ==
    /\ InHttp
    /\ Name(ctx.dirs[ctx.i]) # Server
    /\ ctx' = [ctx EXCEPT !.i = @ + 1,
                          !.warnings = Append(@, Warning(ctx.dirs[ctx.i], "unrecognized"))]
    /\ UNCHANGED <<Parsing, ss>>

HttpReturn ==
    /\ ctx.fn = "httpContext"
    /\ ctx.i > Len(ctx.dirs)
    /\ ctx' = [ctx EXCEPT !.fn = "done"]
    /\ UNCHANGED <<Parsing, ss>>

\* dir.Params[1] of a listen directive without an argument
ServerListenPanic ==
    /\ InServer
    /\ Name(ctx.block[ctx.j]) = Listen
    /\ Len(ctx.block[ctx.j].Params) < 2
    /\ ctx' = [ctx EXCEPT !.fn = "panic"]
    /\ UNCHANGED <<Parsing, ss>>

\* an existing server has the address: srv and srvName become that server
ServerListenOther ==
    /\ InServer
    /\ Name(ctx.block[ctx.j]) = Listen
    /\ Len(ctx.block[ctx.j].Params) >= 2
    /\ \E otherSrvName \in Holders(ss.servers, ListenAddr(ctx.block[ctx.j].Params[2])) :
           ctx' = [ctx EXCEPT !.shared = TRUE, !.srvName = otherSrvName, !.j = @ + 1]
    /\ UNCHANGED <<Parsing, ss>>

ServerListenAppend ==
    /\ InServer
    /\ Name(ctx.block[ctx.j]) = Listen
    /\ Len(ctx.block[ctx.j].Params) >= 2
    /\ Holders(ss.servers, ListenAddr(ctx.block[ctx.j].Params[2])) = {}
    /\ Assign([Srv EXCEPT !.Listen = Append(@, ListenAddr(ctx.block[ctx.j].Params[2]))])
    /\ UNCHANGED Parsing

ServerServerName ==
    /\ InServer
    /\ Name(ctx.block[ctx.j]) = ServerName
    /\ ctx' = [ctx EXCEPT !.j = @ + 1,
                          !.route.MatcherSetsRaw =
                              << [host |-> Tail(ctx.block[ctx.j].Params)] >>]
    /\ UNCHANGED <<Parsing, ss>>

ServerRoot ==
    /\ InServer
    /\ Name(ctx.block[ctx.j]) = Root
    /\ ctx' = [ctx EXCEPT !.j = @ + 1,
                          !.route.HandlersRaw =
                              << [handler |-> "file_server",
                                  root |-> Param(ctx.block[ctx.j], 1)] >>]
    /\ UNCHANGED <<Parsing, ss>>

ServerUnrecognized ==
    /\ InServer
    /\ Name(ctx.block[ctx.j]) \notin {Listen, ServerName, Root}
    /\ ctx' = [ctx EXCEPT !.j = @ + 1,
                          !.warnings = Append(@, Warning(ctx.block[ctx.j], "unrecognized"))]
    /\ UNCHANGED <<Parsing, ss>>

\* after the last directive: the route is added and the server stored
ServerReturn ==
    /\ ctx.fn = "serverContext"
    /\ ctx.j > Len(ctx.block)
    /\ ss' = [ss EXCEPT !.servers =
                 Store(@, ctx.srvName,
                       IF RouteEmpty(ctx.route) THEN Srv
                       ELSE [Srv EXCEPT !.Routes = Append(@, ctx.route)])]
    /\ ctx' = [ctx EXCEPT !.fn = "httpContext", !.i = @ + 1]
    /\ UNCHANGED Parsing

NextServer ==
    \/ HttpServer
    \/ HttpUnrecognized
    \/ HttpReturn
    \/ ServerListenPanic
    \/ ServerListenOther
    \/ ServerListenAppend
    \/ ServerServerName
    \/ ServerRoot
    \/ ServerUnrecognized
    \/ ServerReturn

\* the addresses of the drawn listen directives: two spellings of port 80
\* and a second port
ListenArgs == { <<"8", "0">>, <<":", "8", "0">>, <<"8", "1">> }

ListenDir(addr) == Stmt(<<Listen, addr>>, Nil)

\* the blocks of the drawn server directives: every block of at most
\* MaxListens listen directives, and one block for each other case
ServerBlocks ==
    { [i \in 1..Len(addrs) |-> ListenDir(addrs[i])] : addrs \in BSeq(ListenArgs, MaxListens) }
    \cup { << ListenDir(<<"8", "0">>), Stmt(<<ServerName, <<"a">> >>, Nil) >>,
           << Stmt(<<Root, <<"/", "r">> >>, Nil), ListenDir(<<"8", "1">>) >>,
           << ListenDir(<<"u", "n", "i", "x", ":", "s">>), Stmt(<<Listen>>, Nil) >>,
           << Stmt(<< <<"g", "z", "i", "p">>, <<"o", "n">> >>, Nil) >> }

HttpDirs ==
    { Stmt(<<Server>>, block) : block \in ServerBlocks }
    \cup { Stmt(<< <<"g", "z", "i", "p">>, <<"o", "n">> >>, Nil) }

\* httpContext is called on an http block, the setupState as Adapt made it
InitServer ==
    /\ body = <<>>
    /\ lex = newLexer(NginxConf)
    /\ pc = "setup"
    /\ tokens = <<>> /\ cursor = 0 /\ stack = <<>>
    /\ ret = [status |-> "none"] /\ fsLog = <<>>
    /\ adapted = [status |-> "none"]
    /\ ss = [servers |-> <<>>]
    /\ \E dirs \in BSeq(HttpDirs, MaxServers) :
           ctx = [fn |-> "httpContext", dirs |-> dirs, i |-> 1, warnings |-> Nil,
                  block |-> Nil, j |-> 1, srv |-> NewServer, shared |-> FALSE,
                  srvName |-> <<>>, route |-> NewRoute]

SpecServer == InitServer /\ [][NextServer]_vars

-----------------------------------------------------------------------------
(* The setup of an upstream: upstreamContext, on blocks of the directives   *)
(* that src/upstream.go and src/unnamed/part_003 treat alike (all but       *)
(* `server`).  A pointer is Nil or the one-element sequence of what it      *)
(* points to.                                                               *)

RECURSIVE Number(_)
Number(digits) ==
    IF digits = <<>> THEN 0
    ELSE 10 * Number(Front(digits))
         + (CHOOSE d \in 0..9 : Digits[d + 1] = Last(digits))

\* strconv.ParseInt(s, 10, 64) with its error dropped: 0 for what is no number
ParseInt(s) ==
    IF ~isNumeric(s) THEN 0
    ELSE IF s[1] = "-" THEN 0 - Number(Tail(s))
    ELSE IF s[1] = "+" THEN Number(Tail(s))
    ELSE Number(s)

Millisecond == 1000000

\* time.ParseDuration(s) with its error dropped, for whole milliseconds: 0
\* for what has no unit
ParseDuration(s) ==
    IF Len(s) > 2 /\ SubSeq(s, Len(s) - 1, Len(s)) = <<"m", "s">>
          /\ \A i \in 1..(Len(s) - 2) : IsDigit(s[i])
    THEN Number(SubSeq(s, 1, Len(s) - 2)) * Millisecond
    ELSE 0

NewUpstream ==
    [Servers |-> Nil, NTLM |-> FALSE,
     SelectionPolicy |-> [Name |-> <<>>, Selector |-> Nil],
     KeepAlive |-> Nil]

NewKeepAlive ==
    [Enabled |-> Nil, MaxIdleConns |-> 0, MaxIdleConnsPerHost |-> 0, IdleConnTimeout |-> 0]

nginxPolicyToCaddy(name) ==
    CASE name = <<"r", "a", "n", "d", "o", "m">> ->
             <<"r", "a", "n", "d", "o", "m", "_", "c", "h", "o", "o", "s", "e">>
      [] name = <<"l", "e", "a", "s", "t", "_", "c", "o", "n", "n">> -> name
      [] name = <<"i", "p", "_", "h", "a", "s", "h">> -> name
      [] name = <<"h", "a", "s", "h">> -> <<"h", "e", "a", "d", "e", "r">>
      [] OTHER -> <<>>

Hash == <<"h", "a", "s", "h">>

IpHash == <<"i", "p", "_", "h", "a", "s", "h">>

LeastConn == <<"l", "e", "a", "s", "t", "_", "c", "o", "n", "n">>

Random == <<"r", "a", "n", "d", "o", "m">>

Ntlm == <<"n", "t", "l", "m">>

Keepalive == <<"k", "e", "e", "p", "a", "l", "i", "v", "e">>

KeepaliveRequests == Keepalive \o <<"_", "r", "e", "q", "u", "e", "s", "t", "s">>

KeepaliveTimeout == Keepalive \o <<"_", "t", "i", "m", "e", "o", "u", "t">>

InUpstream == ctx.fn = "upstreamContext" /\ ctx.i <= Len(ctx.dirs)

\* the directive of this round of the loop
ThisDir == ctx.dirs[ctx.i]

\* the round ends with this upstream
Round(upstream) ==
    /\ ctx' = [ctx EXCEPT !.upstream = upstream, !.i = @ + 1]
    /\ UNCHANGED <<Parsing, ss>>

\* a field is assigned through the nil upstream.KeepAlive
NilDereference ==
    /\ ctx' = [ctx EXCEPT !.fn = "panic"]
    /\ UNCHANGED <<Parsing, ss>>

UpstreamHash ==
    /\ InUpstream
    /\ Name(ThisDir) = Hash
    /\ Round([ctx.upstream EXCEPT !.SelectionPolicy =
                 [Name |-> nginxPolicyToCaddy(Name(ThisDir)),
                  Selector |-> <<[selection |-> "HeaderHashSelection",
                                  Field |-> Param(ThisDir, 2)]>>]])

\* ip_hash, least_conn and random
UpstreamPolicy ==
    /\ InUpstream
    /\ Name(ThisDir) \in {IpHash, LeastConn, Random}
    /\ Round([ctx.upstream EXCEPT !.SelectionPolicy =
                 [Name |-> nginxPolicyToCaddy(Name(ThisDir)),
                  Selector |-> <<[selection |-> Name(ThisDir)]>>]])

UpstreamKeepalive ==
    /\ InUpstream
    /\ Name(ThisDir) = Keepalive
    /\ Round([ctx.upstream EXCEPT !.KeepAlive =
                 <<[NewKeepAlive EXCEPT !.Enabled = <<TRUE>>,
                                        !.MaxIdleConns = ParseInt(Param(ThisDir, 1))]>>])

UpstreamKeepaliveRequests ==
    /\ InUpstream
    /\ Name(ThisDir) = KeepaliveRequests
    /\ IF ctx.upstream.KeepAlive = Nil
       THEN NilDereference
       ELSE Round([ctx.upstream EXCEPT !.KeepAlive[1].MaxIdleConnsPerHost =
                      ParseInt(Param(ThisDir, 1))])

UpstreamKeepaliveTimeout ==
    /\ InUpstream
    /\ Name(ThisDir) = KeepaliveTimeout
    /\ IF ctx.upstream.KeepAlive = Nil
       THEN NilDereference
       ELSE Round([ctx.upstream EXCEPT !.KeepAlive[1].IdleConnTimeout =
                      ParseDuration(Param(ThisDir, 1))])

UpstreamNtlm ==
    /\ InUpstream
    /\ Name(ThisDir) = Ntlm
    /\ Round([ctx.upstream EXCEPT !.NTLM = TRUE])

UpstreamUnrecognized ==
    /\ InUpstream
    /\ Name(ThisDir) \notin {Server, Hash, IpHash, Keepalive, KeepaliveRequests,
                         KeepaliveTimeout, Ntlm, LeastConn, Random}
    /\ ctx' = [ctx EXCEPT !.i = @ + 1,
                          !.warns = Append(@, Warning(ThisDir, "unrecognized"))]
    /\ UNCHANGED <<Parsing, ss>>

UpstreamReturn ==
    /\ ctx.fn = "upstreamContext"
    /\ ctx.i > Len(ctx.dirs)
    /\ ctx' = [ctx EXCEPT !.fn = "done"]
    /\ UNCHANGED <<Parsing, ss>>

NextUpstream ==
    \/ UpstreamHash
    \/ UpstreamPolicy
    \/ UpstreamKeepalive
    \/ UpstreamKeepaliveRequests
    \/ UpstreamKeepaliveTimeout
    \/ UpstreamNtlm
    \/ UpstreamUnrecognized
    \/ UpstreamReturn

UpstreamDirs ==
    { Stmt(<<Keepalive, <<"2">> >>, Nil),
      Stmt(<<Keepalive, <<"o", "n">> >>, Nil),
      Stmt(<<KeepaliveRequests, <<"5">> >>, Nil),
      Stmt(<<KeepaliveTimeout, <<"3", "m", "s">> >>, Nil),
      Stmt(<<KeepaliveTimeout, <<"3">> >>, Nil),
      Stmt(<<Ntlm>>, Nil),
      Stmt(<<IpHash>>, Nil),
      Stmt(<<Random>>, Nil),
      Stmt(<<Hash, <<"$", "h">>, <<"k">> >>, Nil),
      Stmt(<< <<"z", "o", "n", "e">>, <<"z">> >>, Nil) }

\* upstreamContext is called on the block of an upstream directive
InitUpstream ==
    /\ body = <<>>
    /\ lex = newLexer(NginxConf)
    /\ pc = "setup"
    /\ tokens = <<>> /\ cursor = 0 /\ stack = <<>>
    /\ ret = [status |-> "none"] /\ fsLog = <<>>
    /\ adapted = [status |-> "none"]
    /\ ss = [servers |-> <<>>]
    /\ \E dirs \in BSeq(UpstreamDirs, MaxDirs) :
           ctx = [fn |-> "upstreamContext", dirs |-> dirs, i |-> 1,
                  upstream |-> NewUpstream, warns |-> Nil]

SpecUpstream == InitUpstream /\ [][NextUpstream]_vars

-----------------------------------------------------------------------------
(* What the claims are stated with.                                         *)

\* tokenize has returned (lexer specification)
Lexed == pc = "lexed"

\* parse has returned or panicked
Returned == ret.status \in {"ok", "err", "panic"}

Quotes == {"\"", "'"}

IsPlainChar(ch) ==
    ~IsSpace(ch) /\ ch \notin {";", "#", "\"", "'", "\\", "{", "}"}

\* the words of a text: its maximal runs of characters that are not whitespace
RECURSIVE SplitWords(_, _, _)
SplitWords(text, cur, acc) ==
    IF text = <<>> THEN (IF cur = <<>> THEN acc ELSE Append(acc, cur))
    ELSE IF IsSpace(Head(text))
    THEN SplitWords(Tail(text), <<>>, IF cur = <<>> THEN acc ELSE Append(acc, cur))
    ELSE SplitWords(Tail(text), Append(cur, Head(text)), acc)

WordsOf(text) == SplitWords(text, <<>>, <<>>)

\* the lines of a text, without their line feeds
RECURSIVE SplitLines(_, _, _)
SplitLines(text, cur, acc) ==
    IF text = <<>> THEN (IF cur = <<>> THEN acc ELSE Append(acc, cur))
    ELSE IF Head(text) = "\n" THEN SplitLines(Tail(text), <<>>, Append(acc, cur))
    ELSE SplitLines(Tail(text), Append(cur, Head(text)), acc)

LinesOf(text) == SplitLines(text, <<>>, <<>>)

Occurs(sub, s) ==
    \E i \in 1..(Len(s) - Len(sub) + 1) : SubSeq(s, i, i + Len(sub) - 1) = sub

\* a directive tree without its File and Line stamps
RECURSIVE Shape(_)
Shape(dirs) ==
    [i \in 1..Len(dirs) |-> [Params |-> dirs[i].Params, Block |-> Shape(dirs[i].Block)]]

\* every directive of a tree, at any depth
RECURSIVE AllDirectives(_)
AllDirectives(dirs) ==
    {dirs[i] : i \in 1..Len(dirs)}
        \cup UNION {AllDirectives(dirs[i].Block) : i \in 1..Len(dirs)}

\* The reference reading of a sequence of token texts as statements: a
\* statement runs to its first ";" or "{", and a "{" to its matching "}".
RECURSIVE FirstEnd(_, _)
FirstEnd(ts, i) ==
    IF i > Len(ts) THEN 0
    ELSE IF ts[i] \in {Semicolon, OpenBrace} THEN i
    ELSE FirstEnd(ts, i + 1)

RECURSIVE MatchClose(_, _, _)
MatchClose(ts, i, depth) ==
    IF i > Len(ts) THEN 0
    ELSE IF ts[i] = CloseBrace
    THEN (IF depth = 0 THEN i ELSE MatchClose(ts, i + 1, depth - 1))
    ELSE IF ts[i] = OpenBrace THEN MatchClose(ts, i + 1, depth + 1)
    ELSE MatchClose(ts, i + 1, depth)

After(ts, i) == SubSeq(ts, i + 1, Len(ts))

Between(ts, i, j) == SubSeq(ts, i + 1, j - 1)

\* ts is a sequence of complete statements
RECURSIVE Complete(_)
Complete(ts) ==
    \/ ts = <<>>
    \/ /\ FirstEnd(ts, 1) # 0
       /\ ~Contains(SubSeq(ts, 1, FirstEnd(ts, 1)), CloseBrace)
       /\ IF ts[FirstEnd(ts, 1)] = Semicolon
          THEN Complete(After(ts, FirstEnd(ts, 1)))
          ELSE /\ MatchClose(ts, FirstEnd(ts, 1) + 1, 0) # 0
               /\ Complete(Between(ts, FirstEnd(ts, 1), MatchClose(ts, FirstEnd(ts, 1) + 1, 0)))
               /\ Complete(After(ts, MatchClose(ts, FirstEnd(ts, 1) + 1, 0)))

\* the directives a sequence of complete statements without includes stands for
RECURSIVE Tree(_)
Tree(ts) ==
    IF ts = <<>> THEN <<>>
    ELSE IF ts[FirstEnd(ts, 1)] = Semicolon
    THEN <<[Params |-> SubSeq(ts, 1, FirstEnd(ts, 1) - 1), Block |-> Nil]>>
         \o Tree(After(ts, FirstEnd(ts, 1)))
    ELSE <<[Params |-> SubSeq(ts, 1, FirstEnd(ts, 1) - 1),
            Block |-> Tree(Between(ts, FirstEnd(ts, 1),
                                   MatchClose(ts, FirstEnd(ts, 1) + 1, 0)))]>>
         \o Tree(After(ts, MatchClose(ts, FirstEnd(ts, 1) + 1, 0)))

-----------------------------------------------------------------------------
(* C2: for every well-formed simple statement (plain words, none of them    *)
(* "include", then ";"), tokenize followed by parse returns exactly one     *)
(* Directive whose params are the words in source order and has no block.   *)

\* the index of the only ";" of a simple statement, 0 if text is none
StatementEnd(text) ==
    IF /\ Count(text, ";") = 1
       /\ \A i \in 1..Len(text) :
             \/ IsPlainChar(text[i])
             \/ IsSpace(text[i])
             \/ text[i] = ";" /\ \A j \in (i + 1)..Len(text) : IsSpace(text[j])
    THEN CHOOSE i \in 1..Len(text) : text[i] = ";"
    ELSE 0

StatementWords(text) == WordsOf(SubSeq(text, 1, StatementEnd(text) - 1))

SimpleStatement(text) ==
    StatementEnd(text) # 0 /\ ~Contains(StatementWords(text), Include)

C2_SimpleStatement ==
    (Returned /\ SimpleStatement(body)) =>
        /\ ret.status = "ok"
        /\ Len(ret.dirs) = 1
        /\ ret.dirs[1].Params = StatementWords(body)
        /\ ret.dirs[1].Block = Nil

C2_Witness ==
    /\ Returned
    /\ SimpleStatement(body)
    /\ Len(StatementWords(body)) = 3
    /\ Len(ret.dirs) = 1
    /\ Len(ret.dirs[1].Params) = 3

-----------------------------------------------------------------------------
(* C3: a statement `name p1 .. pk { body }` without includes, whose body    *)
(* and whose followers are complete statements, parses to one Directive     *)
(* with params [name, p1, .., pk] and the directives of body as its block,  *)
(* in order and at any depth; the closing "}" is consumed and what follows  *)
(* it is parsed as the following siblings.                                  *)

Source == Texts(lex.tokens)

BlockOpen == FirstEnd(Source, 1)

BlockClose == MatchClose(Source, BlockOpen + 1, 0)

BlockStatement ==
    /\ ~Contains(Source, Include)
    /\ BlockOpen > 1
    /\ Source[BlockOpen] = OpenBrace
    /\ ~Contains(SubSeq(Source, 1, BlockOpen), CloseBrace)
    /\ BlockClose # 0
    /\ Complete(Between(Source, BlockOpen, BlockClose))
    /\ Complete(After(Source, BlockClose))

C3_BlockStatement ==
    (Returned /\ BlockStatement) =>
        /\ ret.status = "ok"
        /\ Shape(ret.dirs) =
              <<[Params |-> SubSeq(Source, 1, BlockOpen - 1),
                 Block |-> Tree(Between(Source, BlockOpen, BlockClose))]>>
              \o Tree(After(Source, BlockClose))

\* a block holding a block, with a sibling after it
C3_Witness ==
    /\ Returned
    /\ BlockStatement
    /\ Len(ret.dirs) = 2
    /\ Len(ret.dirs[1].Block) = 1
    /\ Len(ret.dirs[1].Block[1].Block) = 1

-----------------------------------------------------------------------------
(* C4: parsing is all-or-nothing. An error raised by include resolution,   *)
(* at any depth and after any number of parsed directives, is handed up     *)
(* unchanged; parse then returns it with no directives, and Adapt returns   *)
(* only the error, with no output and no warnings.                          *)

C4_AllOrNothing ==
    /\ [](ret.status = "err" =>
             /\ ret.dirs = Nil
             /\ ret.err.kind \in {"pattern", "glob", "import"})
    /\ [](pc = "done" =>
             adapted = [status |-> "err", out |-> Nil, warnings |-> Nil, err |-> ret.err])
    /\ [][ret.status = "raised" =>
             /\ ret'.status \in {"raised", "err"}
             /\ ret'.err = ret.err]_vars

\* an import error inside a block, after a directive had been parsed
C4_Witness ==
    /\ pc = "done"
    /\ adapted.status = "err"
    /\ adapted.out = Nil
    /\ ret.err.kind = "import"
    /\ Len(Source) > 5
    /\ Source[2] = Semicolon
    /\ Source[4] = OpenBrace
    /\ Source[5] = Include

-----------------------------------------------------------------------------
(* Includes: the state in which next has met `include` and its argument,    *)
(* and the step doInclude takes from it.                                    *)

\* the cursor is on an `include` that next is about to resolve
IncludeAhead ==
    /\ InNext
    /\ cursor + 1 < Len(tokens)
    /\ Current.text = Include

\* the argument of that include, as written
Argument == tokens[cursor + 2].text

\* the step from IncludeAhead fails with an error of this kind
Fails(kind) == pc' = "unwind" /\ ret'.status = "raised" /\ ret'.err.kind = kind

\* the step from IncludeAhead is a doInclude that returns without an error
Spliced == pc' = "parse" /\ stack'[Len(stack')].at = "included"

-----------------------------------------------------------------------------
(* C5, as stated: an include whose argument contains two or more `*` fails  *)
(* with the pattern error before any file is globbed, opened or lexed.      *)

C5_Original ==
    [][(IncludeAhead /\ Count(Argument, "*") >= 2) =>
          (Fails("pattern") /\ fsLog' = fsLog)]_vars

(* C5: an include whose argument, once cleaned by filepath.Clean, contains  *)
(* two or more `*` fails with the pattern error before any file is globbed, *)
(* opened or lexed, and parse returns no directive tree.                    *)

C5_CleanedPattern ==
    /\ [][(IncludeAhead /\ Count(Clean(Argument), "*") >= 2) =>
             (Fails("pattern") /\ fsLog' = fsLog /\ tokens' = tokens)]_vars
    /\ []((ret.status = "err" /\ ret.err.kind = "pattern") => ret.dirs = Nil)

C5_Witness ==
    /\ pc = "parsed"
    /\ ret.status = "err"
    /\ ret.err.kind = "pattern"
    /\ Count(ret.err.what, "*") = 2
    /\ ret.dirs = Nil
    /\ fsLog = <<>>
    /\ Len(Source) > 3

-----------------------------------------------------------------------------
(* C6: an include whose argument names a file that does not exist (no       *)
(* wildcard in it, nothing at it as an absolute path, not a standard        *)
(* filename, nothing of that name under any standard subdirectory) makes    *)
(* parse fail with an import error.                                         *)

Wildcard(name) == Contains(name, "*") \/ Contains(name, "?") \/ Contains(name, "[")

NamesNoFile(name) ==
    /\ ~Wildcard(name)
    /\ ~Exists(name)
    /\ \A i \in 1..Len(nginxStdConfs) : nginxStdConfs[i] # name
    /\ \A i \in 1..Len(nginxConfDirs) :
          ~Exists(Join(nginxConfPrefix, nginxConfDirs[i], name))

C6_MissingFile ==
    [][(IncludeAhead /\ NamesNoFile(Clean(Argument))) => Fails("import")]_vars

-----------------------------------------------------------------------------
(* C7, as stated: doInclude removes exactly two tokens, `include` and its   *)
(* argument, and puts the imported tokens in their place; the cursor then   *)
(* indexes the first imported token or, when none was imported, the token   *)
(* that followed the argument.                                              *)

\* the tokens of the files the argument resolves to, in match order
Imported(name) ==
    ImportedTokens(ImportedFiles(name).files,
        [err |-> FALSE, path |-> <<>>, tokens |-> <<>>, ops |-> <<>>]).tokens

-----------------------------------------------------------------------------
(* C8: in the returned tree every directive's File and Line name its        *)
(* origin: File is the top-level source name or the path of an included     *)
(* file, Line is a line of that source, and the directive's first token     *)
(* stands on that line.                                                     *)

Content(file) == IF file = NginxConf THEN body ELSE Entry(file).content

Origin(dir) ==
    /\ dir.File = NginxConf \/ (Exists(dir.File) /\ Entry(dir.File).kind = "file")
    /\ dir.Line \in 1..Len(LinesOf(Content(dir.File)))
    /\ dir.Params # <<>> => Occurs(dir.Params[1], LinesOf(Content(dir.File))[dir.Line])

C8_Origin ==
    ret.status = "ok" => \A dir \in AllDirectives(ret.dirs) : Origin(dir)

-----------------------------------------------------------------------------
(* C1: when a statement `include P;` stands between other statements and P  *)
(* resolves to the files F1..Fn, parse returns the directives of the        *)
(* statements before the include, then those of F1, .., then those of Fn,   *)
(* then the directives of the statements after the include.                 *)

\* the files an include argument resolves to
Resolved(name) == ImportedFiles(Clean(name)).files

Resolves(name) ==
    /\ ~PatternRejected(Clean(name))
    /\ ~ImportedFiles(Clean(name)).err
    /\ Resolved(name) # <<>>
    /\ \A i \in 1..Len(Resolved(name)) : Entry(Resolved(name)[i]).kind = "file"

\* the directives complete statements stand for, an `include P;` among them
\* standing for the directives of the files P resolves to
RECURSIVE Directives(_)
RECURSIVE FileDirectives(_)
Directives(ts) ==
    IF ts = <<>> THEN <<>>
    ELSE IF ts[FirstEnd(ts, 1)] = Semicolon
    THEN (IF FirstEnd(ts, 1) = 3 /\ ts[1] = Include
          THEN FileDirectives(Resolved(ts[2]))
          ELSE <<[Params |-> SubSeq(ts, 1, FirstEnd(ts, 1) - 1), Block |-> Nil]>>)
         \o Directives(After(ts, FirstEnd(ts, 1)))
    ELSE <<[Params |-> SubSeq(ts, 1, FirstEnd(ts, 1) - 1),
            Block |-> Directives(Between(ts, FirstEnd(ts, 1),
                                         MatchClose(ts, FirstEnd(ts, 1) + 1, 0)))]>>
         \o Directives(After(ts, MatchClose(ts, FirstEnd(ts, 1) + 1, 0)))

FileDirectives(files) ==
    IF files = <<>> THEN <<>>
    ELSE Directives(Texts(tokenize(Entry(Head(files)).content)))
         \o FileDirectives(Tail(files))

\* Source is statements, `include P;` at token k, statements
IncludeBetween(k) ==
    /\ Source[k] = Include
    /\ Count(Source, Include) = 1
    /\ k > 1
    /\ k + 2 < Len(Source)
    /\ Source[k + 2] = Semicolon
    /\ Complete(SubSeq(Source, 1, k - 1))
    /\ Complete(After(Source, k + 2))
    /\ Resolves(Source[k + 1])

C1_IncludeOrder ==
    Returned =>
        \A k \in 1..Len(Source) :
            IncludeBetween(k) =>
                /\ ret.status = "ok"
                /\ Shape(ret.dirs) =
                      Tree(SubSeq(Source, 1, k - 1))
                      \o FileDirectives(Resolved(Source[k + 1]))
                      \o Tree(After(Source, k + 2))

-----------------------------------------------------------------------------
(* C9: a `#` outside quotes starts a comment that runs to the next line     *)
(* feed, and no character of the comment produces or changes any token: a   *)
(* text without quotes and backslashes tokenizes like the same text with    *)
(* its comments taken out.                                                  *)

\* text without its comments: each `#` and what follows it up to the line feed
RECURSIVE StripComments(_, _)
StripComments(text, inComment) ==
    IF text = <<>> THEN <<>>
    ELSE IF Head(text) = "\n" THEN <<"\n">> \o StripComments(Tail(text), FALSE)
    ELSE IF inComment \/ Head(text) = "#" THEN StripComments(Tail(text), TRUE)
    ELSE <<Head(text)>> \o StripComments(Tail(text), FALSE)

Unquoted(text) == \A i \in 1..Len(text) : text[i] \notin {"\"", "'", "\\"}

C9_Comments ==
    (Lexed /\ Unquoted(body)) =>
        Texts(tokens) = Texts(tokenize(StripComments(body, FALSE)))

-----------------------------------------------------------------------------
(* C10: inside a quoted token escaping applies only to the active quote:    *)
(* a backslash followed by the active quote character gives just that       *)
(* quote character and does not end the token, a backslash followed by any  *)
(* other character gives the backslash and that character. Stated for the   *)
(* token a text opens with.                                                 *)

\* the text of the quoted token whose characters after the opening quote are
\* s: up to the first quote character that no backslash escapes
RECURSIVE Unescaped(_, _)
Unescaped(s, quote) ==
    IF s = <<>> THEN <<>>
    ELSE IF Head(s) = quote THEN <<>>
    ELSE IF Head(s) # "\\" THEN <<Head(s)>> \o Unescaped(Tail(s), quote)
    ELSE IF Len(s) = 1 THEN <<>>
    ELSE IF s[2] = quote THEN <<quote>> \o Unescaped(Tail(Tail(s)), quote)
    ELSE <<"\\", s[2]>> \o Unescaped(Tail(Tail(s)), quote)

\* that token has a closing quote
RECURSIVE Closes(_, _)
Closes(s, quote) ==
    IF s = <<>> THEN FALSE
    ELSE IF Head(s) = quote THEN TRUE
    ELSE IF Head(s) # "\\" THEN Closes(Tail(s), quote)
    ELSE IF Len(s) = 1 THEN FALSE
    ELSE Closes(Tail(Tail(s)), quote)

C10_Escaping ==
    (Lexed /\ body # <<>> /\ Head(body) \in Quotes) =>
        IF Closes(Tail(body), Head(body)) \/ Unescaped(Tail(body), Head(body)) # <<>>
        THEN /\ tokens # <<>>
             /\ tokens[1].text = Unescaped(Tail(body), Head(body))
        ELSE tokens = <<>>

\* `"\""` lexes to the one token `"`: the escaped quote is kept and does not
\* end the token, the quote after it does
C10_Witness ==
    /\ Lexed
    /\ body = <<"\"", "\\", "\"", "\"">>
    /\ Texts(tokens) = << <<"\"">> >>

-----------------------------------------------------------------------------
(* C11: a quoted token's text is exactly the characters between the opening *)
(* quote and the matching closing quote: whitespace, `;` and `#` inside the *)
(* quotes are kept literally and neither end the token nor start a comment. *)
(* Stated for the first quote of a text, opening a token (after the start  *)
(* of the text, whitespace or a `;`, with no `#`, backslash or carriage     *)
(* return before it), with no backslash before its closing quote: the text  *)
(* lexes to the tokens before the quote, the characters between the quotes  *)
(* as one token, and the tokens of what follows the closing quote.          *)

\* the first index from i on at which s holds a character of set, 0 if none
RECURSIVE IndexIn(_, _, _)
IndexIn(s, set, i) ==
    IF i > Len(s) THEN 0
    ELSE IF s[i] \in set THEN i
    ELSE IndexIn(s, set, i + 1)

QuoteOpen == IndexIn(body, Quotes, 1)

QuoteShut == IndexIn(body, {body[QuoteOpen]}, QuoteOpen + 1)

\* the first quote of body opens a token and is closed, no escape between
QuotedToken ==
    /\ QuoteOpen # 0
    /\ QuoteOpen > 1 => (IsSpace(body[QuoteOpen - 1]) \/ body[QuoteOpen - 1] = ";")
    /\ \A i \in 1..(QuoteOpen - 1) : body[i] \notin {"#", "\\", "\r"}
    /\ QuoteShut # 0
    /\ ~Contains(Between(body, QuoteOpen, QuoteShut), "\\")

C11_QuotedText ==
    (Lexed /\ QuotedToken) =>
        Texts(tokens) =
            Texts(tokenize(SubSeq(body, 1, QuoteOpen - 1)))
            \o <<Between(body, QuoteOpen, QuoteShut)>>
            \o Texts(tokenize(After(body, QuoteShut)))

\* `;"#"` lexes to the tokens `;` and `#`
C11_Witness ==
    /\ Lexed
    /\ QuotedToken
    /\ QuoteOpen = 2
    /\ Texts(tokens) = << Semicolon, <<"#">> >>

-----------------------------------------------------------------------------
(* C12: every `;` outside quotes and comments becomes its own one-character *)
(* token, emitted exactly once, right after the word it ends if there is    *)
(* one: in a text without quotes, backslashes and `#`, the token texts put  *)
(* end to end are the text without its whitespace, and `;` stands in no     *)
(* token but the token `;`.                                                 *)

Plain(text) == \A i \in 1..Len(text) : text[i] \notin {"\"", "'", "\\", "#"}

C12_Semicolons ==
    (Lexed /\ Plain(body)) =>
        /\ Flatten(Texts(tokens)) = SelectSeq(body, LAMBDA ch : ~IsSpace(ch))
        /\ \A i \in 1..Len(tokens) :
              Contains(tokens[i].text, ";") => tokens[i].text = Semicolon

\* `a;;` lexes to a, `;`, `;`
C12_Witness ==
    /\ Lexed
    /\ body = <<"a", ";", ";">>
    /\ Texts(tokens) = << <<"a">>, Semicolon, Semicolon >>

-----------------------------------------------------------------------------
(* C16: every token of tokenize has line >= 1, and its line is 1 plus the   *)
(* number of line feeds before its first character. Stated for texts        *)
(* without quotes, backslashes, `#` and carriage returns, where a token     *)
(* starts at every `;` and at every other character that is not whitespace  *)
(* and follows the start of the text, whitespace or a `;`.                  *)

TokenStart(text, i) ==
    /\ ~IsSpace(text[i])
    /\ \/ text[i] = ";"
       \/ i = 1
       \/ IsSpace(text[i - 1])
       \/ text[i - 1] = ";"

Starts(text) ==
    SelectSeq([i \in 1..Len(text) |-> i], LAMBDA i : TokenStart(text, i))

C16_TokenLines ==
    (Lexed /\ Plain(body) /\ ~Contains(body, "\r")) =>
        /\ Len(tokens) = Len(Starts(body))
        /\ \A k \in 1..Len(tokens) :
              /\ tokens[k].line >= 1
              /\ tokens[k].line = 1 + Count(SubSeq(body, 1, Starts(body)[k] - 1), "\n")

-----------------------------------------------------------------------------
(* C13, as stated: in the returned tree a directive has a block if and only *)
(* if its statement was terminated by `{ ... }`, whatever the braces hold,  *)
(* and has none if and only if it was terminated by `;`. Stated for         *)
(* complete statements without includes.                                    *)

\* Tree, each directive told whether its statement ends with braces
RECURSIVE Statements(_)
Statements(ts) ==
    IF ts = <<>> THEN <<>>
    ELSE IF ts[FirstEnd(ts, 1)] = Semicolon
    THEN <<[Braced |-> FALSE, Block |-> <<>>]>> \o Statements(After(ts, FirstEnd(ts, 1)))
    ELSE <<[Braced |-> TRUE,
            Block |-> Statements(Between(ts, FirstEnd(ts, 1),
                                         MatchClose(ts, FirstEnd(ts, 1) + 1, 0)))]>>
         \o Statements(After(ts, MatchClose(ts, FirstEnd(ts, 1) + 1, 0)))

CompleteSource == ~Contains(Source, Include) /\ Complete(Source)

RECURSIVE BlockIffBraced(_, _)
BlockIffBraced(dirs, stmts) ==
    /\ Len(dirs) = Len(stmts)
    /\ \A i \in 1..Len(dirs) :
          /\ dirs[i].Block # Nil <=> stmts[i].Braced
          /\ dirs[i].Block # Nil => BlockIffBraced(dirs[i].Block, stmts[i].Block)

C13_Original ==
    (Returned /\ CompleteSource) => BlockIffBraced(ret.dirs, Statements(Source))

(* C13: in the returned tree a directive has a block if and only if its     *)
(* statement was terminated by braces that hold at least one statement; a   *)
(* statement terminated by `;` and one terminated by empty braces both give *)
(* a directive with no block. Stated for complete statements without        *)
(* includes.                                                                *)

RECURSIVE BlockIffFilled(_, _)
BlockIffFilled(dirs, stmts) ==
    /\ Len(dirs) = Len(stmts)
    /\ \A i \in 1..Len(dirs) :
          /\ dirs[i].Block # Nil <=> (stmts[i].Braced /\ stmts[i].Block # <<>>)
          /\ dirs[i].Block # Nil => BlockIffFilled(dirs[i].Block, stmts[i].Block)

C13_BlockIffFilled ==
    (Returned /\ CompleteSource) =>
        /\ ret.status = "ok"
        /\ BlockIffFilled(ret.dirs, Statements(Source))

\* `a { } b ;`: a, ended by empty braces, has no block
C13_Witness ==
    /\ Returned
    /\ CompleteSource
    /\ Len(Source) = 5
    /\ Source[2] = OpenBrace
    /\ Source[3] = CloseBrace
    /\ Statements(Source)[1].Braced
    /\ Len(ret.dirs) = 2
    /\ ret.dirs[1].Block = Nil

-----------------------------------------------------------------------------
(* C14: every directive of the returned tree has a non-empty params         *)
(* sequence, for any token sequence.                                        *)

C14_NamedDirectives ==
    ret.status = "ok" => \A dir \in AllDirectives(ret.dirs) : dir.Params # <<>>

-----------------------------------------------------------------------------
(* C15: parse tolerates the end of input in the middle of a directive,      *)
(* whatever the last tokens are: when complete statements are followed by   *)
(* tokens with no `;`, `{` or `}` among them, parse returns without error   *)
(* and without a crash, and when these tokens are plain words the last      *)
(* directive carries them as its parameters.                                *)

\* the index of the last `;`, `{` or `}` of ts at or before i, 0 if none
RECURSIVE LastEnd(_, _)
LastEnd(ts, i) ==
    IF i = 0 THEN 0
    ELSE IF ts[i] \in {Semicolon, OpenBrace, CloseBrace} THEN i
    ELSE LastEnd(ts, i - 1)

CutAt == LastEnd(Source, Len(Source))

\* Source is complete statements without includes, then a directive cut off
CutOff ==
    /\ CutAt < Len(Source)
    /\ Complete(SubSeq(Source, 1, CutAt))
    /\ ~Contains(SubSeq(Source, 1, CutAt), Include)

C15_EndOfInput ==
    (Returned /\ CutOff) =>
        /\ ret.status = "ok"
        /\ ~Contains(After(Source, CutAt), Include) =>
              /\ Shape(Front(ret.dirs)) = Tree(SubSeq(Source, 1, CutAt))
              /\ Last(ret.dirs).Params = After(Source, CutAt)
              /\ Last(ret.dirs).Block = Nil

-----------------------------------------------------------------------------
(* C17: include resolution is triggered only by a token `include` that is   *)
(* the directive name; a token `include` in a parameter position is         *)
(* appended to params like any other token, and neither the filesystem nor  *)
(* the token sequence is touched.                                           *)

\* the token at the cursor goes to the params of the directive being built
ParamAppended ==
    /\ Len(stack') = Len(stack)
    /\ stack'[Len(stack)].fn = "next"
    /\ stack'[Len(stack)].dir.Params = Append(Top.dir.Params, Current.text)
    /\ cursor' = cursor + 1

C17_IncludeAsParam ==
    [][(InNext /\ ~AtEnd /\ Current.text = Include /\ Top.dir.Params # <<>>) =>
          (ParamAppended /\ tokens' = tokens /\ fsLog' = fsLog)]_vars

-----------------------------------------------------------------------------
(* C18: after doInclude has spliced, the token at the cursor is handled by  *)
(* the rules of any other token: `;`, `{`, `include` and a `}` standing     *)
(* there are not taken for a parameter, anything else is, and with no token *)
(* left the directive ends as it does at the end of input.                  *)

AfterSplice == pc = "parse" /\ Top.fn = "next" /\ Top.at = "included"

C18_AfterSplice ==
    [][AfterSplice =>
          /\ pc' # "panic"
          /\ ~AtEnd =>
                IF Current.text \in {Semicolon, OpenBrace, Include, CloseBrace}
                THEN ~ParamAppended
                ELSE ParamAppended]_vars

-----------------------------------------------------------------------------
(* C19: when the include argument is one of the standard configuration      *)
(* filenames, the resolver imports exactly one file, root/<name>, and the   *)
(* standard subdirectories are not searched.                                *)

StandardName(name) == \E i \in 1..Len(nginxStdConfs) : nginxStdConfs[i] = name

\* the filesystem calls of the step
Calls == SubSeq(fsLog', Len(fsLog) + 1, Len(fsLog'))

C19_StandardFile ==
    [][(IncludeAhead /\ StandardName(Clean(Argument)) /\ Spliced) =>
          /\ tokens' = SubSeq(tokens, 1, cursor)
                \o allTokens(Join(nginxConfPrefix, Clean(Argument), <<>>),
                             Entry(Join(nginxConfPrefix, Clean(Argument), <<>>)).content)
                \o SubSeq(tokens, cursor + 4, Len(tokens))
          /\ \A i \in 1..Len(Calls) : Calls[i].op # "glob"]_vars

-----------------------------------------------------------------------------
(* C20, as stated: doInclude fails with the pattern error if and only if    *)
(* the cleaned argument contains more than one `*`, or more than one `?`,   *)
(* or a `[`...`]` class together with at least one other wildcard.          *)

ClassAndWildcard(name) ==
    /\ Contains(name, "[") /\ Contains(name, "]")
    /\ Contains(name, "*") \/ Contains(name, "?")

-----------------------------------------------------------------------------
(* C21: every path selected for import is opened and read before any token  *)
(* is spliced. When one of them cannot be opened or is a directory,         *)
(* doInclude fails with an import error naming the first such path, after   *)
(* opening the paths up to it, and the token sequence and the cursor are as *)
(* they were before the call (the cursor on the argument, where next() had  *)
(* put it); when doInclude splices, it has opened every selected path.      *)

Unreadable(path) == ~Exists(path) \/ Entry(path).kind # "file"

\* how many of the paths are opened: up to the first unreadable one
RECURSIVE Opened(_)
Opened(files) ==
    IF files = <<>> THEN 0
    ELSE IF Unreadable(Head(files)) THEN 1
    ELSE 1 + Opened(Tail(files))

\* the paths the step has opened, in order
Opens ==
    LET opens == SelectSeq(Calls, LAMBDA c : c.op = "open")
    IN [i \in 1..Len(opens) |-> opens[i].path]

\* the step from IncludeAhead, the argument having selected these paths
ReadThenSplice(files, opened) ==
    /\ (\E i \in 1..Len(files) : Unreadable(files[i])) =>
          /\ Fails("import")
          /\ opened = SubSeq(files, 1, Opened(files))
          /\ ret'.err.what = Last(opened)
          /\ tokens' = tokens
          /\ cursor' = cursor + 1
    /\ Spliced => opened = files

C21_ReadBeforeSplice ==
    [][(IncludeAhead /\ ~PatternRejected(Clean(Argument))) =>
          \A found \in {ImportedFiles(Clean(Argument))} :
              ~found.err => \A opened \in {Opens} : ReadThenSplice(found.files, opened)]_vars

\* `include ?;` has opened f and h, failed on the directory u and spliced
\* nothing
C21_Witness ==
    /\ ret.status = "raised"
    /\ ret.err.kind = "import"
    /\ Len(SelectSeq(fsLog, LAMBDA c : c.op = "open")) = 3
    /\ Entry(ret.err.what).kind = "dir"
    /\ tokens = lex.tokens
    /\ tokens[cursor + 1].text = <<"?">>

-----------------------------------------------------------------------------
(* C22: parse terminates if and only if no file reachable through its       *)
(* include statements includes itself. Stated for the half that says a      *)
(* self-including file keeps parse from returning: when the one include of  *)
(* a configuration, after complete statements, resolves to a file that      *)
(* includes itself, directly or through other files, parse never returns.   *)

\* the files the include statements of a token sequence resolve to
IncludedBy(ts) ==
    UNION {{Resolved(ts[i + 1])[j] : j \in 1..Len(Resolved(ts[i + 1]))} :
              i \in {i \in 1..(Len(ts) - 1) : ts[i] = Include}}

FileTokens(file) ==
    IF Unreadable(file) THEN <<>> ELSE Texts(tokenize(Entry(file).content))

RECURSIVE Reachable(_, _)
Reachable(files, n) ==
    IF n = 0 THEN files
    ELSE Reachable(files \cup UNION {IncludedBy(FileTokens(f)) : f \in files}, n - 1)

SelfIncluding(file) ==
    file \in Reachable(IncludedBy(FileTokens(file)), Len(FileSystem))

\* the one include of Source stands at k after complete statements and
\* resolves to a self-including file
IncludesCycle(k) ==
    /\ Source[k] = Include
    /\ Count(Source, Include) = 1
    /\ k + 2 <= Len(Source)
    /\ Source[k + 2] = Semicolon
    /\ Complete(SubSeq(Source, 1, k - 1))
    /\ Resolves(Source[k + 1])
    /\ \E i \in 1..Len(Resolved(Source[k + 1])) : SelfIncluding(Resolved(Source[k + 1])[i])

C22_SelfInclude ==
    (\E k \in 1..Len(Source) : IncludesCycle(k)) => ~Returned


(***************************************************************************)
(* C23: when parse returns successfully the cursor has reached the end of  *)
(* the token sequence, so no suffix of the input is left unparsed, whether *)
(* or not the braces of the input are balanced.                            *)
(***************************************************************************)
C23_AllConsumed == ret.status = "ok" => cursor = Len(tokens)


(***************************************************************************)
(* C24: parse never reorders what it reads.  The params of every returned  *)
(* directive are the texts of a run of consecutive tokens of the token     *)
(* sequence as it stands after the includes, in their order, and the       *)
(* directives of the root sequence and of every block follow one another   *)
(* in the order of their first tokens: reading the returned tree in        *)
(* preorder, each directive's run lies after the run of the one before it  *)
(* and a block's directives lie after the run of the directive that owns   *)
(* the block.                                                              *)
(***************************************************************************)
\* The first position at or after from where run lies in ts, 0 when none.
RECURSIVE FindRun(_, _, _)
FindRun(run, ts, from) ==
    IF from + Len(run) - 1 > Len(ts) THEN 0
    ELSE IF SubSeq(ts, from, from + Len(run) - 1) = run THEN from
    ELSE FindRun(run, ts, from + 1)

\* The params of the directives of a tree, in preorder.
RECURSIVE Runs(_)
Runs(dirs) ==
    IF dirs = <<>> THEN <<>>
    ELSE <<Head(dirs).Params>> \o Runs(Head(dirs).Block) \o Runs(Tail(dirs))

\* The runs lie in ts one after the other, from position from on.
RECURSIVE InOrder(_, _, _)
InOrder(runs, ts, from) ==
    \/ runs = <<>>
    \/ /\ runs # <<>>
       /\ \E at \in {FindRun(Head(runs), ts, from)} :
              /\ at # 0
              /\ InOrder(Tail(runs), ts, at + Len(Head(runs)))

C24_SourceOrder ==
    ret.status = "ok" => InOrder(Runs(ret.dirs), Texts(tokens), 1)

C24_Witness ==
    /\ ret.status = "ok"
    /\ tokens # lex.tokens
    /\ Len(ret.dirs) >= 3
    /\ \E i \in 1..Len(ret.dirs) : Len(ret.dirs[i].Params) >= 2
    /\ \E i \in 1..Len(ret.dirs) : ret.dirs[i].Block # Nil


(***************************************************************************)
(* C25: outside quotes and comments every `{` and every `}` is a token of  *)
(* its own, whether or not whitespace separates it from its neighbours.    *)
(* Stated for texts without quotes, backslashes and `#`: a token that      *)
(* holds a brace is that brace alone.                                      *)
(***************************************************************************)
C25_BraceTokens ==
    (Lexed /\ Plain(body)) =>
        \A i \in 1..Len(tokens) :
            (Contains(tokens[i].text, "{") \/ Contains(tokens[i].text, "}"))
                => tokens[i].text \in {OpenBrace, CloseBrace}

(***************************************************************************)
(* C26: the parser classifies a token by its text alone, so a quoted token *)
(* whose text is `;`, `{` or `}` acts as the unquoted one does, and        *)
(* putting such a token in quotes leaves the parse result unchanged.       *)
(* Stated for complete statements without includes whose quotes each hold  *)
(* one of `;`, `{`, `}` and stand between whitespace: the directives parse *)
(* returns, file and line included, are those the same tokens give when    *)
(* lexed from the text without its quotes.                                 *)
(***************************************************************************)
Structural(ch) == ch \in {";", "{", "}"}

\* every quote of text opens or closes a quoted `;`, `{` or `}` that stands
\* between whitespace
QuotedForm(text) ==
    /\ \A i \in 1..Len(text) : text[i] \notin {"'", "\\", "#", "\r"}
    /\ \A i \in 1..Len(text) :
          text[i] = "\"" =>
              \/ /\ i + 2 <= Len(text)
                 /\ Structural(text[i + 1])
                 /\ text[i + 2] = "\""
                 /\ i = 1 \/ IsSpace(text[i - 1])
              \/ /\ i >= 3
                 /\ Structural(text[i - 1])
                 /\ text[i - 2] = "\""
                 /\ i = Len(text) \/ IsSpace(text[i + 1])

\* the text with its quoted tokens unquoted
Bare(text) == SelectSeq(text, LAMBDA ch : ch # "\"")

\* the directives parse returns for tokens that are complete statements
\* without includes
RECURSIVE Parsed(_, _)
Parsed(ts, texts) ==
    IF ts = <<>> THEN <<>>
    ELSE IF texts[FirstEnd(texts, 1)] = Semicolon
    THEN <<[File |-> ts[1].file, Line |-> ts[1].line,
            Params |-> SubSeq(texts, 1, FirstEnd(texts, 1) - 1), Block |-> Nil]>>
         \o Parsed(After(ts, FirstEnd(texts, 1)), After(texts, FirstEnd(texts, 1)))
    ELSE <<[File |-> ts[1].file, Line |-> ts[1].line,
            Params |-> SubSeq(texts, 1, FirstEnd(texts, 1) - 1),
            Block |-> Parsed(Between(ts, FirstEnd(texts, 1),
                                     MatchClose(texts, FirstEnd(texts, 1) + 1, 0)),
                             Between(texts, FirstEnd(texts, 1),
                                     MatchClose(texts, FirstEnd(texts, 1) + 1, 0)))]>>
         \o Parsed(After(ts, MatchClose(texts, FirstEnd(texts, 1) + 1, 0)),
                   After(texts, MatchClose(texts, FirstEnd(texts, 1) + 1, 0)))

C26_QuotedSame ==
    (ret.status = "ok" /\ CompleteSource /\ QuotedForm(body)) =>
        \A bare \in {tokenize(Bare(body))} : ret.dirs = Parsed(bare, Texts(bare))

(***************************************************************************)
(* C27: outside quotes a carriage return ends the buffered token like any  *)
(* other whitespace.  Stated for texts without quotes, backslashes and     *)
(* `#`: no token holds a carriage return, and the tokens are those of the  *)
(* text with a space in place of every carriage return.                    *)
(***************************************************************************)
Spaced(text) == [i \in 1..Len(text) |-> IF text[i] = "\r" THEN " " ELSE text[i]]

C27_CarriageReturn ==
    (Lexed /\ Plain(body)) =>
        /\ \A i \in 1..Len(tokens) : ~Contains(tokens[i].text, "\r")
        /\ Texts(tokens) = Texts(tokenize(Spaced(body)))


(***************************************************************************)
(* C28: tokenize terminates on every finite buffer, and a token that is    *)
(* buffered when the input ends is emitted exactly once, as the last       *)
(* token.  The buffered token is stated for the two ways an input ends in  *)
(* one: a text without quotes, backslashes, `#` and carriage returns whose *)
(* last character is neither whitespace nor `;` (its last word is emitted, *)
(* and there are as many tokens as token starts), and a text that opens a  *)
(* quote with its first character and never closes it (the one token is    *)
(* the text after the quote, escapes resolved).                            *)
(***************************************************************************)
WordPending ==
    /\ body # <<>>
    /\ Plain(body)
    /\ ~Contains(body, "\r")
    /\ ~IsSpace(Last(body))
    /\ Last(body) # ";"

QuotePending ==
    /\ body # <<>>
    /\ Head(body) \in Quotes
    /\ ~Closes(Tail(body), Head(body))
    /\ Unescaped(Tail(body), Head(body)) # <<>>

PendingOnce ==
    /\ WordPending =>
          /\ Len(tokens) = Len(Starts(body))
          /\ Last(tokens).text = SubSeq(body, Last(Starts(body)), Len(body))
    /\ QuotePending => Texts(tokens) = << Unescaped(Tail(body), Head(body)) >>

C28_Terminates == <>Lexed /\ [](Lexed => PendingOnce)

\* `"a a`, a quote that is never closed, lexes to the one token `a a`
C28_Witness ==
    /\ Lexed
    /\ body = <<"\"", "a", " ", "a">>
    /\ Texts(tokens) = << <<"a", " ", "a">> >>


(***************************************************************************)
(* C29: whatever server blocks serverContext has processed, no listen      *)
(* address stands in the Listen list of two different servers of the       *)
(* setup state.  When serverContext returns from a block that declares an  *)
(* address an existing server holds, it has created no server; and the     *)
(* entry it stores leaves every server that was there its addresses and    *)
(* the routes it had.                                                      *)
(***************************************************************************)
\* the addresses of the server stored under name
Listens(name) == {ss.servers[name].Listen[i] : i \in 1..Len(ss.servers[name].Listen)}

\* the addresses the listen directives of a block declare
Declared(block) ==
    {ListenAddr(block[i].Params[2]) :
        i \in {i \in 1..Len(block) : Name(block[i]) = Listen /\ Len(block[i].Params) >= 2}}

\* serverContext returns
ServerStored == ctx.fn = "serverContext" /\ ctx'.fn = "httpContext"

Kept(name) ==
    /\ name \in DOMAIN ss'.servers
    /\ ss'.servers[name].Listen = ss.servers[name].Listen
    /\ Len(ss'.servers[name].Routes) >= Len(ss.servers[name].Routes)
    /\ SubSeq(ss'.servers[name].Routes, 1, Len(ss.servers[name].Routes))
          = ss.servers[name].Routes

C29_OneServerPerAddress ==
    /\ [](\A n1, n2 \in DOMAIN ss.servers :
              n1 # n2 => Listens(n1) \cap Listens(n2) = {})
    /\ [][ServerStored =>
             /\ (\E name \in DOMAIN ss.servers : Declared(ctx.block) \cap Listens(name) # {})
                   => DOMAIN ss'.servers = DOMAIN ss.servers
             /\ \A name \in DOMAIN ss.servers : Kept(name)]_vars

\* three server blocks have been processed, the last one merged into one of
\* the two servers that the first two created
C29_Witness ==
    /\ ctx.fn = "done"
    /\ Len(ctx.dirs) = 3
    /\ \A i \in 1..3 : Declared(ctx.dirs[i].Block) # {}
    /\ ctx.shared
    /\ Cardinality(DOMAIN ss.servers) = 2
    /\ ctx.srvName = <<"s", "e", "r", "v", "e", "r", "_", "0">>


(***************************************************************************)
(* C30: upstreamContext handles `keepalive_requests` and                   *)
(* `keepalive_timeout` safely whether or not a `keepalive` precedes them,  *)
(* and the keep-alive settings do not depend on the order of the three.    *)
(* Stated for blocks with each of the three at most once: upstreamContext  *)
(* does not crash, and when the block has a `keepalive` the settings it    *)
(* returns are those the three directives name, wherever they stand.       *)
(***************************************************************************)
\* the places of the directive called name in the block
Places(name) == {i \in 1..Len(ctx.dirs) : Name(ctx.dirs[i]) = name}

\* the argument of the one directive called name, of no directive if none
Arg(name) == IF Places(name) = {} THEN <<>> ELSE Param(ctx.dirs[CHOOSE i \in Places(name) : TRUE], 1)

AtMostOnce ==
    \A name \in {Keepalive, KeepaliveRequests, KeepaliveTimeout} : Cardinality(Places(name)) <= 1

C30_KeepaliveAnyOrder ==
    AtMostOnce =>
        /\ ctx.fn # "panic"
        /\ (ctx.fn = "done" /\ Places(Keepalive) # {}) =>
              ctx.upstream.KeepAlive =
                  <<[Enabled |-> <<TRUE>>,
                     MaxIdleConns |-> ParseInt(Arg(Keepalive)),
                     MaxIdleConnsPerHost |-> ParseInt(Arg(KeepaliveRequests)),
                     IdleConnTimeout |-> ParseDuration(Arg(KeepaliveTimeout))]>>

=============================================================================
